---- MODULE Spec2Model ----
(***************************************************************************)
(* Hybrid retrieval engine of backend/app/rag_pipeline.py: VectorIndex,    *)
(* BM25Index and the rank-fusion Retriever.                                *)
(*                                                                         *)
(* Numbers.  Python floats are modelled by exact values:                   *)
(*   - a cosine distance 1 - s*sqrt(n/d) is the record [s, n, d] with n/d  *)
(*     in lowest terms, a euclidean distance sqrt(sq) is the record [sq];  *)
(*   - a fusion score is the fraction [num, den] in lowest terms;          *)
(*   - a raw BM25 score is a fixed-point integer (unit 1/Scale);           *)
(*   - a normalized BM25 score exp(e / (10*Scale)) is carried as its       *)
(*     exponent e (exp is strictly increasing: same order, same ties).     *)
(* Documents are Python dicts, compared by identity: a document is a       *)
(* reference (an index of heap), its fields live in heap.                  *)
(***************************************************************************)
EXTENDS Integers, Sequences, FiniteSets, TLC

VARIABLES heap, vindex, bm25, retriever, last

vars == <<heap, vindex, bm25, retriever, last>>

----------------------------------------------------------------------------
(* Bounds of the model *)

MaxVecs == 2

MaxK == 2

MaxBatch == 2

MaxDocs == 2

\* documents in each index of a Retriever
MaxStored == 3

----------------------------------------------------------------------------
(* Python values *)

None == "None"

\* a document argument that is not a dict
NotADict == 0

\* dict values: content is [t |-> "missing"] (no "content" key), [t |-> "int"]
\* (a value that is not a str) or [t |-> "str", text |-> <<characters>>];
\* id is a string or NoId (no "id" key)
NoContent == [t |-> "missing"]

IntContent == [t |-> "int"]

Str(text) == [t |-> "str", text |-> text]

NoId == "NoId"

\* arguments: a list of numbers / a list of documents / a str / anything else
ListArg(v) == [kind |-> "list", list |-> v]

StrArg(text) == [kind |-> "str", text |-> text]

OtherArg == [kind |-> "other"]

Abs(x) == IF x < 0 THEN -x ELSE x

Sign(x) == IF x < 0 THEN -1 ELSE IF x = 0 THEN 0 ELSE 1

Min(a, b) == IF a <= b THEN a ELSE b

Max(a, b) == IF a >= b THEN a ELSE b

RECURSIVE Gcd(_, _)
Gcd(a, b) == IF b = 0 THEN a ELSE Gcd(b, a % b)

RECURSIVE SumSeq(_)
SumSeq(s) == IF s = <<>> THEN 0 ELSE Head(s) + SumSeq(Tail(s))

Range(s) == {s[i] : i \in 1..Len(s)}

\* seq[:k] for k >= 0
Take(s, k) == SubSeq(s, 1, Min(k, Len(s)))

\* list.sort(key=...) is stable: the element at i lands after every element
\* with a smaller key and after the equal-keyed elements that precede it.
\* lt[i][j] tells whether the key of s[i] is less than the key of s[j].
StableSort(s, lt) ==
    LET pos(i) == 1 + Cardinality({j \in 1..Len(s) :
                        lt[j][i] \/ (~lt[i][j] /\ j < i)})
    IN  [p \in 1..Len(s) |-> s[CHOOSE i \in 1..Len(s) : pos(i) = p]]

----------------------------------------------------------------------------
(* Texts: sequences of characters *)

T_cat == <<"c", "a", "t">>

T_dog == <<"d", "o", "g">>

T_catcat == <<"c", "a", "t", " ", "c", "a", "t">>

T_catdog == <<"c", "a", "t", " ", "d", "o", "g">>

T_Cat == <<"C", "a", "t", "!">>

T_empty == <<>>

T_punct == <<"!", " ">>

RECURSIVE CountChar(_, _)
CountChar(text, ch) ==
    IF text = <<>> THEN 0
    ELSE (IF Head(text) = ch THEN 1 ELSE 0) + CountChar(Tail(text), ch)

\* embedding_fn: the external, deterministic text -> vector collaborator.
\* Here: the two-dimensional count of the letters c and d.
Embed(text) == <<CountChar(text, "c") + CountChar(text, "C"), CountChar(text, "d")>>

----------------------------------------------------------------------------
(* VectorIndex *)

Dot(vec1, vec2) == SumSeq([i \in 1..Len(vec1) |-> vec1[i] * vec2[i]])

\* _magnitude(vec) is sqrt(Mag2(vec)); the model carries the square.
Mag2(vec) == SumSeq([i \in 1..Len(vec) |-> vec[i] * vec[i]])

Zero == [m |-> "cos", s |-> 1, n |-> 1, d |-> 1]

One == [m |-> "cos", s |-> 0, n |-> 0, d |-> 1]

\* mutant: the zero-magnitude test "mag1 == 0 or mag2 == 0" made first
CosineDistance_ZeroTestFirst(vec1, vec2) ==
    LET m1 == Mag2(vec1)
        m2 == Mag2(vec2)
        dp == Dot(vec1, vec2)
        g  == Gcd(dp * dp, m1 * m2)
    IN  IF m1 = 0 \/ m2 = 0 THEN One
        ELSE IF dp = 0 THEN One
        ELSE [m |-> "cos", s |-> Sign(dp), n |-> (dp * dp) \div g, d |-> (m1 * m2) \div g]

\* 1 - max(-1, min(1, dot / (mag1 * mag2))) as [s, n, d]: 1 - s*sqrt(n/d)
\* (a similarity of 0 gives 1.0, the value the zero-magnitude case returns)
CosineDistance(vec1, vec2) ==
    LET m1 == Mag2(vec1)
        m2 == Mag2(vec2)
        dp == Dot(vec1, vec2)
        n0 == dp * dp
        d0 == m1 * m2
        n1 == Min(n0, d0)
        g  == Gcd(n1, d0)
    IN  IF m1 = 0 /\ m2 = 0 THEN Zero
        ELSE IF m1 = 0 \/ m2 = 0 THEN One
        ELSE IF dp = 0 THEN One
        ELSE [m |-> "cos", s |-> Sign(dp), n |-> n1 \div g, d |-> d0 \div g]

\* sqrt(sum((p - q)^2)) as [sq]: sqrt(sq)
EuclideanDistance(vec1, vec2) ==
    [m |-> "euc", sq |-> SumSeq([i \in 1..Len(vec1) |-> (vec1[i] - vec2[i]) * (vec1[i] - vec2[i])])]

\* a < b on distances of one metric
DistLess(a, b) ==
    IF a.m = "euc" THEN a.sq < b.sq
    ELSE \* 1 - sa*sqrt(na/da) < 1 - sb*sqrt(nb/db)
         IF a.s # b.s THEN a.s > b.s
         ELSE IF a.s = 1 THEN a.n * b.d > b.n * a.d
         ELSE IF a.s = -1 THEN a.n * b.d < b.n * a.d
         ELSE FALSE

DistIsZero(a) == IF a.m = "euc" THEN a.sq = 0 ELSE a = Zero

EntryLess(x, y) == DistLess(x.score, y.score)

\* self after a call, and the exception the call raised (None: it returned)
Outcome(self, raised) == [self |-> self, raised |-> raised]

\* mutant: add_vector without the test of the vector's length
AddVector_NoDimCheck(ix, hp, vector, document) ==
    IF vector.kind # "list" THEN Outcome(ix, "TypeError")
    ELSE IF document = NotADict THEN Outcome(ix, "TypeError")
    ELSE IF hp[document].content = NoContent THEN Outcome(ix, "ValueError")
    ELSE Outcome([ix EXCEPT !.vector_dim = IF ix.vectors = <<>> THEN Len(vector.list) ELSE @,
                            !.vectors = Append(@, vector.list),
                            !.documents = Append(@, document)], None)

\* VectorIndex.add_vector(vector, document) on the index ix; vector is an
\* argument record, document a heap reference (or NotADict), hp the heap.
AddVector(ix, hp, vector, document) ==
    IF vector.kind # "list" THEN Outcome(ix, "TypeError")
    ELSE IF document = NotADict THEN Outcome(ix, "TypeError")
    ELSE IF hp[document].content = NoContent THEN Outcome(ix, "ValueError")
    ELSE IF ix.vectors # <<>> /\ Len(vector.list) # ix.vector_dim
         THEN Outcome(ix, "ValueError")
    ELSE Outcome([ix EXCEPT !.vector_dim = IF ix.vectors = <<>> THEN Len(vector.list) ELSE @,
                            !.vectors = Append(@, vector.list),
                            !.documents = Append(@, document)], None)

\* VectorIndex.add_document(document)
AddDocument(ix, hp, document) ==
    IF ~ix.embedding_fn THEN Outcome(ix, "ValueError")
    ELSE IF document = NotADict THEN Outcome(ix, "TypeError")
    ELSE IF hp[document].content = NoContent THEN Outcome(ix, "ValueError")
    ELSE IF hp[document].content.t # "str" THEN Outcome(ix, "TypeError")
    ELSE AddVector(ix, hp, ListArg(Embed(hp[document].content.text)), document)

\* for vector, document in zip(vectors, documents): self.add_vector(...)
\* (the first add_vector that raises ends the loop, what was added stays)
RECURSIVE AddVectors(_, _, _, _)
AddVectors(ix, hp, vectors, documents) ==
    IF vectors = <<>> \/ documents = <<>> THEN Outcome(ix, None)
    ELSE LET one == AddVector(ix, hp, ListArg(Head(vectors)), Head(documents))
         IN  IF one.raised # None THEN one
             ELSE AddVectors(one.self, hp, Tail(vectors), Tail(documents))

\* the exception the validation loop of add_documents raises on the first
\* invalid document (None: every document is valid)
RECURSIVE ValidateDocuments(_, _)
ValidateDocuments(hp, documents) ==
    IF documents = <<>> THEN None
    ELSE IF Head(documents) = NotADict THEN "TypeError"
    ELSE IF hp[Head(documents)].content = NoContent THEN "ValueError"
    ELSE IF hp[Head(documents)].content.t # "str" THEN "TypeError"
    ELSE ValidateDocuments(hp, Tail(documents))

\* mutant: one vector comes back for the whole batch, so that zip stops
\* after the first document
AddDocuments_FirstOnly(ix, hp, documents) ==
    IF ~ix.embedding_fn THEN Outcome(ix, "ValueError")
    ELSE IF documents.kind # "list" THEN Outcome(ix, "TypeError")
    ELSE IF documents.list = <<>> THEN Outcome(ix, None)
    ELSE IF ValidateDocuments(hp, documents.list) # None
         THEN Outcome(ix, ValidateDocuments(hp, documents.list))
    ELSE AddVectors(ix, hp, <<Embed(hp[documents.list[1]].content.text)>>, documents.list)

\* VectorIndex.add_documents(documents); documents is an argument record
AddDocuments(ix, hp, documents) ==
    IF ~ix.embedding_fn THEN Outcome(ix, "ValueError")
    ELSE IF documents.kind # "list" THEN Outcome(ix, "TypeError")
    ELSE IF documents.list = <<>> THEN Outcome(ix, None)
    ELSE IF ValidateDocuments(hp, documents.list) # None
         THEN Outcome(ix, ValidateDocuments(hp, documents.list))
    ELSE AddVectors(ix, hp,
                    [i \in 1..Len(documents.list) |-> Embed(hp[documents.list[i]].content.text)],
                    documents.list)

\* what a search returns: the exception raised (None: it returned) and the list
Returned(value) == [raised |-> None, value |-> value]

Raised(exc) == [raised |-> exc, value |-> <<>>]

Pair(doc, score) == [doc |-> doc, score |-> score]

\* dist_func chosen by self._distance_metric
Distance(ix, vec1, vec2) ==
    IF ix.distance_metric = "cosine" THEN CosineDistance(vec1, vec2)
    ELSE EuclideanDistance(vec1, vec2)

\* mutant: the distances are left in insertion order
SortByDistance_Unsorted(distances) == distances

\* distances.sort(key=lambda item: item[0])
SortByDistance(distances) ==
    StableSort(distances, [i \in 1..Len(distances) |-> [j \in 1..Len(distances) |->
                              EntryLess(distances[i], distances[j])]])

\* mutant: k is not checked
VectorSearch_NoKCheck(ix, query, k) ==
    IF ix.vectors = <<>> THEN Returned(<<>>)
    ELSE IF query.kind = "str" /\ ~ix.embedding_fn THEN Raised("ValueError")
    ELSE IF query.kind = "other" THEN Raised("TypeError")
    ELSE LET query_vector == IF query.kind = "str" THEN Embed(query.text) ELSE query.list
             distances == [i \in 1..Len(ix.vectors) |->
                             Pair(ix.documents[i], Distance(ix, query_vector, ix.vectors[i]))]
         IN  IF Len(query_vector) # ix.vector_dim THEN Raised("ValueError")
             ELSE Returned(Take(SortByDistance(distances), k))

\* VectorIndex.search(query, k)
VectorSearch(ix, query, k) ==
    IF ix.vectors = <<>> THEN Returned(<<>>)
    ELSE IF query.kind = "str" /\ ~ix.embedding_fn THEN Raised("ValueError")
    ELSE IF query.kind = "other" THEN Raised("TypeError")
    ELSE LET query_vector == IF query.kind = "str" THEN Embed(query.text) ELSE query.list
             distances == [i \in 1..Len(ix.vectors) |->
                             Pair(ix.documents[i], Distance(ix, query_vector, ix.vectors[i]))]
         IN  IF Len(query_vector) # ix.vector_dim THEN Raised("ValueError")
             ELSE IF k <= 0 THEN Raised("ValueError")
             ELSE Returned(Take(SortByDistance(distances), k))

----------------------------------------------------------------------------
(* BM25Index *)

\* unit of the fixed-point raw scores and IDF values: 1/Scale
Scale == 100000

\* defaults of __init__: k1 = 1.5 = K1Num/K1Den, b = 0.75 = BNum/BDen
K1Num == 3

K1Den == 2

BNum == 3

BDen == 4

Letters ==
    {"a", "b", "c", "d", "e", "f", "g", "h", "i", "j", "k", "l", "m",
     "n", "o", "p", "q", "r", "s", "t", "u", "v", "w", "x", "y", "z"}

\* str.lower() on the characters of the texts
Lower(ch) == IF ch = "C" THEN "c" ELSE IF ch = "D" THEN "d" ELSE ch

\* mutant: the letter s taken for a separator
IsWordChar_NoS(ch) == ch \in (Letters \ {"s"}) \cup {"C", "D", "_", "0", "1"}

\* \w of the regular expression
IsWordChar(ch) == ch \in Letters \cup {"C", "D", "_", "0", "1"}

\* re.split(r"\W+", text), empty tokens dropped; cur is the token being read
RECURSIVE SplitWords(_, _)
SplitWords(text, cur) ==
    IF text = <<>> THEN (IF cur = <<>> THEN <<>> ELSE <<cur>>)
    ELSE IF IsWordChar(Head(text)) THEN SplitWords(Tail(text), Append(cur, Head(text)))
    ELSE (IF cur = <<>> THEN <<>> ELSE <<cur>>) \o SplitWords(Tail(text), <<>>)

\* BM25Index._default_tokenizer
Tokenize(text) == SplitWords([i \in 1..Len(text) |-> Lower(text[i])], <<>>)

\* BM25Index.__init__ with the default k1, b and tokenizer
NewBM25Index ==
    [documents |-> <<>>, corpus_tokens |-> <<>>, doc_len |-> <<>>,
     doc_freqs |-> <<>>, avg_doc_len |-> [num |-> 0, den |-> 1], idf |-> <<>>,
     index_built |-> FALSE]

\* dict.get(token, 0)
Get(dict, key) == IF key \in DOMAIN dict THEN dict[key] ELSE 0

\* dict[key] = value
Put(dict, key, value) == [x \in DOMAIN dict \cup {key} |-> IF x = key THEN value ELSE dict[x]]

\* mutant: every occurrence of a token counts
RECURSIVE CountTokens_EveryOccurrence(_, _, _)
CountTokens_EveryOccurrence(doc_freqs, doc_tokens, seen_in_doc) ==
    IF doc_tokens = <<>> THEN doc_freqs
    ELSE CountTokens_EveryOccurrence(
             Put(doc_freqs, Head(doc_tokens), Get(doc_freqs, Head(doc_tokens)) + 1),
             Tail(doc_tokens), seen_in_doc)

\* the loop of _update_stats_add: one more document for every distinct token
RECURSIVE CountTokens(_, _, _)
CountTokens(doc_freqs, doc_tokens, seen_in_doc) ==
    IF doc_tokens = <<>> THEN doc_freqs
    ELSE IF Head(doc_tokens) \in seen_in_doc
         THEN CountTokens(doc_freqs, Tail(doc_tokens), seen_in_doc)
    ELSE CountTokens(Put(doc_freqs, Head(doc_tokens), Get(doc_freqs, Head(doc_tokens)) + 1),
                     Tail(doc_tokens), seen_in_doc \cup {Head(doc_tokens)})

\* mutant: the index is not marked stale
UpdateStatsAdd_KeepsBuilt(ix, doc_tokens) ==
    [ix EXCEPT !.doc_len = Append(@, Len(doc_tokens)),
               !.doc_freqs = CountTokens(@, doc_tokens, {})]

\* BM25Index._update_stats_add
UpdateStatsAdd(ix, doc_tokens) ==
    [ix EXCEPT !.doc_len = Append(@, Len(doc_tokens)),
               !.doc_freqs = CountTokens(@, doc_tokens, {}),
               !.index_built = FALSE]

\* the body of both insertion methods once the document is validated
StoreDocument(ix, hp, document) ==
    LET doc_tokens == Tokenize(hp[document].content.text)
    IN  UpdateStatsAdd([ix EXCEPT !.documents = Append(@, document),
                                  !.corpus_tokens = Append(@, doc_tokens)],
                       doc_tokens)

\* BM25Index.add_document
BM25AddDocument(ix, hp, document) ==
    IF document = NotADict THEN Outcome(ix, "TypeError")
    ELSE IF hp[document].content = NoContent THEN Outcome(ix, "ValueError")
    ELSE IF hp[document].content.t # "str" THEN Outcome(ix, "TypeError")
    ELSE Outcome(StoreDocument(ix, hp, document), None)

\* the loop of BM25Index.add_documents: each document is validated and stored
\* in turn, so the documents before an invalid one stay stored
RECURSIVE BM25AddEach(_, _, _)
BM25AddEach(ix, hp, documents) ==
    IF documents = <<>> THEN Outcome([ix EXCEPT !.index_built = FALSE], None)
    ELSE LET one == BM25AddDocument(ix, hp, Head(documents))
         IN  IF one.raised # None THEN one
             ELSE BM25AddEach(one.self, hp, Tail(documents))

\* BM25Index.add_documents
BM25AddDocuments(ix, hp, documents) ==
    IF documents.kind # "list" THEN Outcome(ix, "TypeError")
    ELSE IF documents.list = <<>> THEN Outcome(ix, None)
    ELSE BM25AddEach(ix, hp, documents.list)

\* Scale * (z + z^3/3 + z^5/5 + ...) for z = a/b, term by term; zk is
\* Scale * z^k for the odd k reached
RECURSIVE AtanhSeries(_, _, _, _)
AtanhSeries(zk, k, a, b) ==
    IF zk = 0 THEN 0
    ELSE (zk \div k) + AtanhSeries((zk * a * a) \div (b * b), k + 2, a, b)

\* math.log(p / q) for p > q > 0, in units of 1/Scale: 2 * atanh((p-q)/(p+q))
Ln(p, q) == 2 * AtanhSeries((Scale * (p - q)) \div (p + q), 1, p - q, p + q)

\* BM25Index._calculate_idf: log((N - freq + 0.5) / (freq + 0.5) + 1)
\*                         = log((2N + 2) / (2 freq + 1))
CalculateIdf(ix) ==
    LET N == Len(ix.documents)
    IN  [ix EXCEPT !.idf = [term \in DOMAIN ix.doc_freqs |->
                               Ln(2 * N + 2, 2 * ix.doc_freqs[term] + 1)]]

\* mutant: the document frequencies are used up by the build
BuildIndex_ConsumesFrequencies(ix) ==
    IF ix.documents = <<>>
    THEN [ix EXCEPT !.avg_doc_len = [num |-> 0, den |-> 1], !.idf = <<>>,
                    !.index_built = TRUE]
    ELSE [CalculateIdf([ix EXCEPT !.avg_doc_len =
                            [num |-> SumSeq(ix.doc_len), den |-> Len(ix.documents)]])
             EXCEPT !.index_built = TRUE, !.doc_freqs = <<>>]

\* BM25Index._build_index
BuildIndex(ix) ==
    IF ix.documents = <<>>
    THEN [ix EXCEPT !.avg_doc_len = [num |-> 0, den |-> 1], !.idf = <<>>,
                    !.index_built = TRUE]
    ELSE [CalculateIdf([ix EXCEPT !.avg_doc_len =
                            [num |-> SumSeq(ix.doc_len), den |-> Len(ix.documents)]])
             EXCEPT !.index_built = TRUE]

\* Counter(tokens)[token]
CountOf(tokens, token) == Cardinality({i \in 1..Len(tokens) : tokens[i] = token})

\* mutant: the term frequency left out of the numerator
TermScore_NoFrequency(ix, token, doc_index) ==
    LET term_freq  == CountOf(ix.corpus_tokens[doc_index], token)
        doc_length == ix.doc_len[doc_index]
        avg        == ix.avg_doc_len
        numerator  == ix.idf[token] * (K1Num + K1Den) * BDen * avg.num
        denominator ==
            term_freq * K1Den * BDen * avg.num
              + K1Num * ((BDen - BNum) * avg.num + BNum * doc_length * avg.den)
    IN  IF token \notin DOMAIN ix.idf THEN 0 ELSE numerator \div denominator

\* one query token's share of the score, in units of 1/Scale:
\*   idf * tf * (k1 + 1) / (tf + k1 * (1 - b + b * doc_length / avg_doc_len))
\* with every factor brought over the common denominator K1Den * BDen * num
\* of the average num/den (the 1e-9 of the code is below the unit)
TermScore(ix, token, doc_index) ==
    LET term_freq  == CountOf(ix.corpus_tokens[doc_index], token)
        doc_length == ix.doc_len[doc_index]
        avg        == ix.avg_doc_len
        numerator  == ix.idf[token] * term_freq * (K1Num + K1Den) * BDen * avg.num
        denominator ==
            term_freq * K1Den * BDen * avg.num
              + K1Num * ((BDen - BNum) * avg.num + BNum * doc_length * avg.den)
    IN  IF token \notin DOMAIN ix.idf THEN 0 ELSE numerator \div denominator

\* BM25Index._compute_bm25_score
RECURSIVE ComputeBM25Score(_, _, _)
ComputeBM25Score(ix, query_tokens, doc_index) ==
    IF query_tokens = <<>> THEN 0
    ELSE TermScore(ix, Head(query_tokens), doc_index)
           + ComputeBM25Score(ix, Tail(query_tokens), doc_index)

\* score_normalization_factor in tenths: the default 0.1
DefaultFactor == 1

\* mutant: the sign of the exponent lost
Normalize_PositiveExponent(factor10, raw_score) == [m |-> "exp", e |-> factor10 * raw_score]

\* math.exp(-score_normalization_factor * raw_score), carried as the exponent
\* in units of 1/(10 * Scale); the factor is given in tenths
Normalize(factor10, raw_score) == [m |-> "exp", e |-> (0 - factor10) * raw_score]

\* a < b on normalized scores
NormLess(a, b) == a.e < b.e

\* mutant: the pairs left in insertion order
SortByRawDescending_Unsorted(raw_scores) == raw_scores

\* raw_scores.sort(key=lambda item: item[0], reverse=True)
SortByRawDescending(raw_scores) ==
    StableSort(raw_scores, [i \in 1..Len(raw_scores) |-> [j \in 1..Len(raw_scores) |->
                               raw_scores[i].score > raw_scores[j].score]])

\* normalized_results.sort(key=lambda item: item[1])
SortByNormalized(results) ==
    StableSort(results, [i \in 1..Len(results) |-> [j \in 1..Len(results) |->
                            NormLess(results[i].score, results[j].score)]])

\* mutant: every document passes the threshold
AboveEpsilon_Always(raw_score) == TRUE

\* raw_score > 1e-9 (the 1e-9 is below the unit of the fixed-point scores)
AboveEpsilon(raw_score) == raw_score > 0

\* the (raw_score, document) pairs of the documents whose score exceeds 1e-9
RECURSIVE RawScores(_, _, _)
RawScores(ix, query_tokens, i) ==
    IF i > Len(ix.documents) THEN <<>>
    ELSE LET raw_score == ComputeBM25Score(ix, query_tokens, i)
         IN  (IF AboveEpsilon(raw_score) THEN <<Pair(ix.documents[i], raw_score)>> ELSE <<>>)
               \o RawScores(ix, query_tokens, i + 1)

\* what a BM25Index.search leaves and gives: the index, the exception, the list
Searched(self, raised, value) == [self |-> self, raised |-> raised, value |-> value]

\* mutant: the arguments are checked before the index is found empty
BM25Search_ChecksFirst(ix, query, k, factor10) ==
    IF query.kind # "str" THEN Searched(ix, "TypeError", <<>>)
    ELSE IF k <= 0 THEN Searched(ix, "ValueError", <<>>)
    ELSE IF ix.documents = <<>> THEN Searched(ix, None, <<>>)
    ELSE LET built == IF ix.index_built THEN ix ELSE BuildIndex(ix)
             query_tokens == Tokenize(query.text)
             top == Take(SortByRawDescending(RawScores(built, query_tokens, 1)), k)
             normalized_results ==
                 [p \in 1..Len(top) |-> Pair(top[p].doc, Normalize(factor10, top[p].score))]
         IN  IF built.avg_doc_len.num = 0 THEN Searched(built, None, <<>>)
             ELSE IF query_tokens = <<>> THEN Searched(built, None, <<>>)
             ELSE Searched(built, None, SortByNormalized(normalized_results))

\* BM25Index.search(query, k, score_normalization_factor); factor10 is the
\* factor in tenths
BM25Search(ix, query, k, factor10) ==
    IF ix.documents = <<>> THEN Searched(ix, None, <<>>)
    ELSE IF query.kind # "str" THEN Searched(ix, "TypeError", <<>>)
    ELSE IF k <= 0 THEN Searched(ix, "ValueError", <<>>)
    ELSE LET built == IF ix.index_built THEN ix ELSE BuildIndex(ix)
             query_tokens == Tokenize(query.text)
             top == Take(SortByRawDescending(RawScores(built, query_tokens, 1)), k)
             normalized_results ==
                 [p \in 1..Len(top) |-> Pair(top[p].doc, Normalize(factor10, top[p].score))]
         IN  IF built.avg_doc_len.num = 0 THEN Searched(built, None, <<>>)
             ELSE IF query_tokens = <<>> THEN Searched(built, None, <<>>)
             ELSE Searched(built, None, SortByNormalized(normalized_results))

----------------------------------------------------------------------------
(* Retriever *)

\* all_results asks every index for k * OverFetch candidates
OverFetch == 5

\* float("inf"): the rank of a document an index did not return
Inf == 0

\* doc_id not in doc_lookup
NoDoc == 0

\* fractions num/den in lowest terms, den > 0
Frac(num, den) == [num |-> num \div Gcd(num, den), den |-> den \div Gcd(num, den)]

FracAdd(x, y) == Frac(x.num * y.den + y.num * x.den, x.den * y.den)

FracLess(x, y) == x.num * y.den < y.num * x.den

\* the objects a Retriever works on: the heap and its indexes, by kind
World(hp, vi, bm) == [heap |-> hp, vector |-> vi, bm25 |-> bm]

\* what a Retriever call leaves and gives
Done(w, raised, value) == [world |-> w, raised |-> raised, value |-> value]

\* Retriever.__init__(*indexes, reranker_fn); indexes lists the kinds of the
\* indexes, reranker_fn is TRUE when a reranker was given
NewRetriever(indexes, reranker_fn) ==
    [raised |-> IF Len(indexes) = 0 THEN "ValueError" ELSE None,
     self |-> [indexes |-> indexes, reranker_fn |-> reranker_fn]]

\* what an insertion into the VectorIndex leaves
VectorStored(w, out) == Done([w EXCEPT !.vector = out.self], out.raised, <<>>)

\* what an insertion into the BM25Index leaves
BM25Stored(w, out) == Done([w EXCEPT !.bm25 = out.self], out.raised, <<>>)

\* index.add_document(document) on the index of that kind
IndexAddDocument(w, kind, document) ==
    IF kind = "vector"
    THEN VectorStored(w, AddDocument(w.vector, w.heap, document))
    ELSE BM25Stored(w, BM25AddDocument(w.bm25, w.heap, document))

\* index.add_documents(documents) on the index of that kind
IndexAddDocuments(w, kind, documents) ==
    IF kind = "vector"
    THEN VectorStored(w, AddDocuments(w.vector, w.heap, documents))
    ELSE BM25Stored(w, BM25AddDocuments(w.bm25, w.heap, documents))

\* what a search of the VectorIndex leaves and gives
VectorFound(w, out) == Done(w, out.raised, out.value)

\* what a search of the BM25Index leaves (its statistics may be rebuilt) and gives
BM25Found(w, out) == Done([w EXCEPT !.bm25 = out.self], out.raised, out.value)

\* index.search(query_text, k=k) on the index of that kind
IndexSearch(w, kind, query, k) ==
    IF kind = "vector"
    THEN VectorFound(w, VectorSearch(w.vector, query, k))
    ELSE BM25Found(w, BM25Search(w.bm25, query, k, DefaultFactor))

\* for index in self._indexes: index.add_document(document)
RECURSIVE AddToEach(_, _, _)
RECURSIVE AddToRest(_, _, _)
AddToEach(w, indexes, document) ==
    IF indexes = <<>> THEN Done(w, None, <<>>)
    ELSE AddToRest(IndexAddDocument(w, Head(indexes), document), Tail(indexes), document)

\* the loop after one index was called: an exception ends it
AddToRest(one, indexes, document) ==
    IF one.raised # None THEN one
    ELSE AddToEach(one.world, indexes, document)

\* mutant: an identifier is drawn for every document
RetrieverAddDocument_AlwaysNewId(rt, w, document, new_id) ==
    AddToEach([w EXCEPT !.heap[document].id = new_id], rt.indexes, document)

\* mutant: the document goes to the first index only
RetrieverAddDocument_FirstIndexOnly(rt, w, document, new_id) ==
    LET w1 == IF w.heap[document].id = NoId
              THEN [w EXCEPT !.heap[document].id = new_id]
              ELSE w
    IN  AddToEach(w1, <<Head(rt.indexes)>>, document)

\* Retriever.add_document(document); new_id is the identifier random.choices
\* draws when the document has none
RetrieverAddDocument(rt, w, document, new_id) ==
    LET w1 == IF w.heap[document].id = NoId
              THEN [w EXCEPT !.heap[document].id = new_id]
              ELSE w
    IN  AddToEach(w1, rt.indexes, document)

\* Retriever.add_documents(documents)
RECURSIVE RetrieverAddDocuments(_, _, _)
RECURSIVE AddDocumentsToRest(_, _, _)
RetrieverAddDocuments(indexes, w, documents) ==
    IF indexes = <<>> THEN Done(w, None, <<>>)
    ELSE AddDocumentsToRest(Tail(indexes),
                            IndexAddDocuments(w, Head(indexes), documents), documents)

\* the loop of add_documents after one index was called
AddDocumentsToRest(indexes, one, documents) ==
    IF one.raised # None THEN one
    ELSE RetrieverAddDocuments(indexes, one.world, documents)

\* all_results = [index.search(query_text, k=k * 5) for index in self._indexes];
\* value is the list of the result lists got so far
RECURSIVE SearchEach(_, _, _, _, _)
RECURSIVE SearchRest(_, _, _, _, _)
SearchEach(w, indexes, query, k, got) ==
    IF indexes = <<>> THEN Done(w, None, got)
    ELSE SearchRest(IndexSearch(w, Head(indexes), query, k), Tail(indexes), query, k, got)

\* the comprehension after one index answered: an exception ends the search
SearchRest(one, indexes, query, k, got) ==
    IF one.raised # None THEN Done(one.world, one.raised, <<>>)
    ELSE SearchEach(one.world, indexes, query, k, Append(got, one.value))

\* position of the entry of doc in doc_ranks (0: none)
RankEntry(doc_ranks, doc) ==
    IF \E e \in 1..Len(doc_ranks) : doc_ranks[e].doc_obj = doc
    THEN CHOOSE e \in 1..Len(doc_ranks) : doc_ranks[e].doc_obj = doc
    ELSE 0

\* the body of the two loops over all_results for the result at (idx, rank):
\* doc_ranks[doc_id]["ranks"][idx] = rank, after the entry is made if missing
RecordRank(doc_ranks, n, idx, rank, doc) ==
    LET made == IF RankEntry(doc_ranks, doc) = 0
                THEN Append(doc_ranks, [doc_obj |-> doc, ranks |-> [i \in 1..n |-> Inf]])
                ELSE doc_ranks
    IN  [made EXCEPT ![RankEntry(made, doc)].ranks[idx] = rank]

\* the loops over all_results, from the result at (idx, rank) on; doc_ranks is
\* a dict: its entries keep the order in which they were made
RECURSIVE DocRanks(_, _, _, _)
DocRanks(all_results, idx, rank, doc_ranks) ==
    IF idx > Len(all_results) THEN doc_ranks
    ELSE IF rank > Len(all_results[idx]) THEN DocRanks(all_results, idx + 1, 1, doc_ranks)
    ELSE DocRanks(all_results, idx, rank + 1,
                  RecordRank(doc_ranks, Len(all_results), idx, rank,
                             all_results[idx][rank].doc))

\* calc_rrf_score: sum(1.0 / (k_rrf + r) for r in ranks if r != float("inf"))
RECURSIVE CalcRrfScore(_, _)
CalcRrfScore(ranks, k_rrf) ==
    IF ranks = <<>> THEN Frac(0, 1)
    ELSE IF Head(ranks) = Inf THEN CalcRrfScore(Tail(ranks), k_rrf)
    ELSE FracAdd(Frac(1, k_rrf + Head(ranks)), CalcRrfScore(Tail(ranks), k_rrf))

\* [(doc, score) for doc, score in scored_docs if score > 0]
RECURSIVE Positive(_)
Positive(scored_docs) ==
    IF scored_docs = <<>> THEN <<>>
    ELSE (IF Head(scored_docs).score.num > 0 THEN <<Head(scored_docs)>> ELSE <<>>)
           \o Positive(Tail(scored_docs))

\* mutant: sorted ascending and then reversed, which turns the ties round
SortByScoreDescending_TiesReversed(docs) ==
    StableSort(docs, [i \in 1..Len(docs) |-> [j \in 1..Len(docs) |->
                         \/ FracLess(docs[j].score, docs[i].score)
                         \/ (~FracLess(docs[i].score, docs[j].score) /\ i > j)]])

\* filtered_docs.sort(key=lambda x: x[1], reverse=True)
SortByScoreDescending(docs) ==
    StableSort(docs, [i \in 1..Len(docs) |-> [j \in 1..Len(docs) |->
                         FracLess(docs[j].score, docs[i].score)]])

\* scored_docs: (doc_obj, calc_rrf_score(ranks)) for the values of doc_ranks
ScoredDocs(doc_ranks, k_rrf) ==
    [e \in 1..Len(doc_ranks) |->
        Pair(doc_ranks[e].doc_obj, CalcRrfScore(doc_ranks[e].ranks, k_rrf))]

\* mutant: filtered_docs is cut without being sorted
Fuse_Unsorted(all_results, k, k_rrf) ==
    Take(Positive(ScoredDocs(DocRanks(all_results, 1, 1, <<>>), k_rrf)), k)

\* the fused result before reranking: filtered_docs[:k]
Fuse(all_results, k, k_rrf) ==
    Take(SortByScoreDescending(Positive(ScoredDocs(DocRanks(all_results, 1, 1, <<>>),
                                                   k_rrf))), k)

\* mutant: only the first candidate is given an identifier
AssignIds_FirstOnly(hp, docs_only, new_ids) ==
    IF docs_only = <<>> \/ hp[Head(docs_only)].id # NoId THEN hp
    ELSE [hp EXCEPT ![Head(docs_only)].id = Head(new_ids)]

\* for doc in docs_only: if "id" not in doc: doc["id"] = <random>; new_ids are
\* the identifiers random.choices draws, in the order they are drawn
RECURSIVE AssignIds(_, _, _)
AssignIds(hp, docs_only, new_ids) ==
    IF docs_only = <<>> THEN hp
    ELSE IF hp[Head(docs_only)].id = NoId
         THEN AssignIds([hp EXCEPT ![Head(docs_only)].id = Head(new_ids)],
                        Tail(docs_only), Tail(new_ids))
    ELSE AssignIds(hp, Tail(docs_only), new_ids)

\* doc_lookup = {doc["id"]: doc for doc in docs_only}: a later document
\* replaces an earlier one with the same id
DocLookup(hp, docs_only, doc_id) ==
    LET carriers == {p \in 1..Len(docs_only) : hp[docs_only[p]].id = doc_id}
    IN  IF carriers = {} THEN NoDoc
        ELSE docs_only[CHOOSE p \in carriers : \A x \in carriers : x <= p]

\* original_scores.get(id(doc), 0.0)
OriginalScore(result, doc) ==
    IF \E p \in 1..Len(result) : result[p].doc = doc
    THEN result[CHOOSE p \in 1..Len(result) :
                   result[p].doc = doc /\ \A x \in 1..Len(result) : result[x].doc = doc => x <= p].score
    ELSE Frac(0, 1)

\* mutant: doc_lookup.get(doc_id) without the membership test
AppendFound_NoLookupCheck(result, doc) == <<Pair(doc, OriginalScore(result, doc))>>

\* if doc_id in doc_lookup: new_result.append((doc, score)); doc is
\* doc_lookup[doc_id], or NoDoc
AppendFound(result, doc) ==
    IF doc # NoDoc THEN <<Pair(doc, OriginalScore(result, doc))>> ELSE <<>>

\* the loop over reranked_ids that builds new_result
RECURSIVE NewResult(_, _, _, _)
NewResult(hp, result, docs_only, reranked_ids) ==
    IF reranked_ids = <<>> THEN <<>>
    ELSE AppendFound(result, DocLookup(hp, docs_only, Head(reranked_ids)))
           \o NewResult(hp, result, docs_only, Tail(reranked_ids))

\* docs_only = [doc for doc, _ in result]
DocsOnly(result) == [p \in 1..Len(result) |-> result[p].doc]

\* lines 315-325 once the candidates carry identifiers (hp)
Reranked(w, hp, result, reranked_ids) ==
    Done([w EXCEPT !.heap = hp], None,
         NewResult(hp, result, DocsOnly(result), reranked_ids))

\* the reranking step of Retriever.search on the fused result
Rerank(w, result, new_ids, reranked_ids) ==
    Reranked(w, AssignIds(w.heap, DocsOnly(result), new_ids), result, reranked_ids)

\* lines 294-309 on the all_results the indexes gave, unless one raised
Fused(all_results, k, k_rrf) ==
    IF all_results.raised # None THEN all_results
    ELSE Done(all_results.world, None,
              [all_results |-> all_results.value,
               result |-> Fuse(all_results.value, k, k_rrf)])

\* mutant: k_rrf checked after the indexes were searched
SearchAndFuse_LateCheck(rt, w, query_text, k, k_rrf) ==
    IF query_text.kind # "str" THEN Done(w, "TypeError", <<>>)
    ELSE IF k <= 0 THEN Done(w, "ValueError", <<>>)
    ELSE IF k_rrf < 0
         THEN Done(SearchEach(w, rt.indexes, query_text, k * OverFetch, <<>>).world,
                   "ValueError", <<>>)
    ELSE Fused(SearchEach(w, rt.indexes, query_text, k * OverFetch, <<>>), k, k_rrf)

\* Retriever.search up to the fused result: the arguments are checked, every
\* index is searched, the rankings are fused and cut to k.  value holds
\* all_results and the fused result.
SearchAndFuse(rt, w, query_text, k, k_rrf) ==
    IF query_text.kind # "str" THEN Done(w, "TypeError", <<>>)
    ELSE IF k <= 0 THEN Done(w, "ValueError", <<>>)
    ELSE IF k_rrf < 0 THEN Done(w, "ValueError", <<>>)
    ELSE Fused(SearchEach(w, rt.indexes, query_text, k * OverFetch, <<>>), k, k_rrf)

\* the end of Retriever.search: the reranking step when a reranker is set;
\* new_ids are the identifiers drawn for the candidates without one,
\* reranked_ids is what reranker_fn returns
FinishSearch(rt, fused, new_ids, reranked_ids) ==
    IF fused.raised # None THEN fused
    ELSE IF rt.reranker_fn
         THEN Rerank(fused.world, fused.value.result, new_ids, reranked_ids)
    ELSE Done(fused.world, None, fused.value.result)

\* the calls Retriever.search makes to reranker_fn, in order: the documents
\* handed over with the id each carries at that time, the query text and k
RerankerCalls(rt, fused, query_text, k, new_ids) ==
    IF fused.raised # None \/ ~rt.reranker_fn THEN <<>>
    ELSE LET docs_only == DocsOnly(fused.value.result)
             hp        == AssignIds(fused.world.heap, docs_only, new_ids)
         IN  <<[docs |-> docs_only,
                ids |-> [p \in 1..Len(docs_only) |-> hp[docs_only[p]].id],
                query_text |-> query_text, k |-> k]>>

\* Retriever.search(query_text, k, k_rrf)
RetrieverSearch(rt, w, query_text, k, k_rrf, new_ids, reranked_ids) ==
    FinishSearch(rt, SearchAndFuse(rt, w, query_text, k, k_rrf), new_ids, reranked_ids)

----------------------------------------------------------------------------
(* State *)

\* VectorIndex.__init__(distance_metric, embedding_fn); embedding_fn is TRUE
\* when an embedding function was given
NewVectorIndex(distance_metric, embedding_fn) ==
    [vectors |-> <<>>, documents |-> <<>>, vector_dim |-> None,
     distance_metric |-> distance_metric, embedding_fn |-> embedding_fn]

NoIndex == [absent |-> TRUE]

\* last holds the call in progress with what it returned or raised, until the
\* caller has taken it; Idle: no call in progress
Idle == [op |-> "idle"]

\* the caller's document: an object already on the heap or a new dict
NewDoc(content, id) == [content |-> content, id |-> id]

\* the heap once the callers' new dicts are allocated, and their references
Alloc(hp, docs) == hp \o docs

\* dicts no index refers to are garbage: the heap keeps the rest
Live(hp, refs) ==
    LET top == IF refs = {} THEN 0 ELSE CHOOSE r \in refs : \A x \in refs : x <= r
    IN  SubSeq(hp, 1, Max(top, 0))

----------------------------------------------------------------------------
(* VectorIndex alone: add_vector, add_document, add_documents, search *)

\* vectors given to add_vector; the documents given to add_document embed to
\* <<1, 0>>, <<0, 1>>, <<2, 0>> and <<0, 0>>
VecVectors == {<<-1, 0>>, <<1, 1>>, <<1>>}

VecContents == {Str(T_cat), Str(T_dog), Str(T_catcat), Str(T_empty), NoContent, IntContent}

VecQueries ==
    {ListArg(v) : v \in {<<1, 0>>, <<0, 1>>, <<0, 0>>, <<-1, 0>>, <<1, 1>>, <<1>>}}
        \cup {StrArg(T_catcat), OtherArg}

\* a call's document argument: [ref] an object (refs: the candidates, 0 is
\* NotADict) or [new] a new dict
DocArgs(refs, contents, ids) ==
    {[ref |-> r] : r \in refs} \cup {[new |-> NewDoc(c, i)] : c \in contents, i \in ids}

IsNew(arg) == "new" \in DOMAIN arg

HeapWith(hp, arg) == IF IsNew(arg) THEN Append(hp, arg.new) ELSE hp

RefOf(hp, arg) == IF IsNew(arg) THEN Len(hp) + 1 ELSE arg.ref

\* the caller takes the result of the call: the next call can start
Return ==
    /\ last # Idle
    /\ last' = Idle
    /\ UNCHANGED <<heap, vindex, bm25, retriever>>

VecInit ==
    /\ heap = <<>>
    /\ vindex \in {NewVectorIndex(m, e) : m \in {"cosine", "euclidean"}, e \in BOOLEAN}
    /\ bm25 = NoIndex
    /\ retriever = NoIndex
    /\ last = Idle

VecAddVector ==
    /\ last = Idle
    /\ Len(vindex.vectors) < MaxVecs
    /\ \E vector \in {ListArg(v) : v \in VecVectors} \cup {OtherArg},
          arg \in DocArgs({NotADict}, {Str(T_dog), NoContent, IntContent}, {NoId}) :
          LET hp  == HeapWith(heap, arg)
              out == AddVector(vindex, hp, vector, RefOf(heap, arg))
          IN  /\ vindex' = out.self
              /\ heap' = Live(hp, Range(out.self.documents))
              /\ last' = [op |-> "add_vector", vector |-> vector, arg |-> arg,
                          raised |-> out.raised]
    /\ UNCHANGED <<bm25, retriever>>

VecAddDocument ==
    /\ last = Idle
    /\ Len(vindex.vectors) < MaxVecs
    /\ \E arg \in DocArgs({NotADict}, VecContents, {NoId}) :
          LET hp  == HeapWith(heap, arg)
              out == AddDocument(vindex, hp, RefOf(heap, arg))
          IN  /\ vindex' = out.self
              /\ heap' = Live(hp, Range(out.self.documents))
              /\ last' = [op |-> "add_document", arg |-> arg, raised |-> out.raised]
    /\ UNCHANGED <<bm25, retriever>>

\* the batches: lists of at most MaxBatch new dicts, or something that is no list
Batches(contents, ids) ==
    UNION {[1..n -> {NewDoc(c, i) : c \in contents, i \in ids}] : n \in 0..MaxBatch}

VecAddDocuments ==
    /\ last = Idle
    /\ \E docs \in Batches(VecContents, {NoId}), islist \in BOOLEAN :
          /\ Len(vindex.vectors) + Len(docs) <= MaxVecs
          /\ islist \/ docs = <<>>
          /\ LET hp   == Alloc(heap, docs)
                 refs == [i \in 1..Len(docs) |-> Len(heap) + i]
                 out  == AddDocuments(vindex, hp, IF islist THEN ListArg(refs) ELSE OtherArg)
             IN  /\ vindex' = out.self
                 /\ heap' = Live(hp, Range(out.self.documents))
                 /\ last' = [op |-> "add_documents", docs |-> docs, islist |-> islist,
                             raised |-> out.raised]
    /\ UNCHANGED <<bm25, retriever>>

VecSearch ==
    /\ last = Idle
    /\ \E query \in VecQueries, k \in 0..MaxK :
          LET out == VectorSearch(vindex, query, k)
          IN  last' = [op |-> "search", query |-> query, k |-> k,
                       raised |-> out.raised, value |-> out.value]
    /\ UNCHANGED <<heap, vindex, bm25, retriever>>

VecNext == VecAddVector \/ VecAddDocument \/ VecAddDocuments \/ VecSearch \/ Return

VecSpec == VecInit /\ [][VecNext]_vars

----------------------------------------------------------------------------
(* BM25Index alone: add_document, add_documents, search *)

BM25Contents ==
    {Str(T_cat), Str(T_catdog), Str(T_catcat), Str(T_dog), Str(T_empty),
     NoContent, IntContent}

BM25BatchContents == {Str(T_cat), Str(T_dog), NoContent}

BM25Queries == {StrArg(T_Cat), StrArg(T_catdog), StrArg(T_punct), OtherArg}

\* the (k, factor) of the searches: every k with the default factor, and the
\* factors 0 and -0.1 with the largest k
BM25SearchArgs == {<<k, DefaultFactor>> : k \in 0..MaxK} \cup {<<MaxK, f>> : f \in {0, -1}}

BM25Init ==
    /\ heap = <<>>
    /\ vindex = NoIndex
    /\ bm25 = NewBM25Index
    /\ retriever = NoIndex
    /\ last = Idle

BM25DoAddDocument ==
    /\ last = Idle
    /\ Len(bm25.documents) < MaxDocs
    /\ \E arg \in DocArgs({NotADict}, BM25Contents, {NoId}) :
          LET hp  == HeapWith(heap, arg)
              out == BM25AddDocument(bm25, hp, RefOf(heap, arg))
          IN  /\ bm25' = out.self
              /\ heap' = Live(hp, Range(out.self.documents))
              /\ last' = [op |-> "add_document", arg |-> arg, raised |-> out.raised]
    /\ UNCHANGED <<vindex, retriever>>

BM25DoAddDocuments ==
    /\ last = Idle
    /\ \E docs \in Batches(BM25BatchContents, {NoId}), islist \in BOOLEAN :
          /\ Len(bm25.documents) + Len(docs) <= MaxDocs
          /\ islist \/ docs = <<>>
          /\ LET hp   == Alloc(heap, docs)
                 refs == [i \in 1..Len(docs) |-> Len(heap) + i]
                 out  == BM25AddDocuments(bm25, hp, IF islist THEN ListArg(refs) ELSE OtherArg)
             IN  /\ bm25' = out.self
                 /\ heap' = Live(hp, Range(out.self.documents))
                 /\ last' = [op |-> "add_documents", docs |-> docs, islist |-> islist,
                             raised |-> out.raised]
    /\ UNCHANGED <<vindex, retriever>>

BM25DoSearch ==
    /\ last = Idle
    /\ \E query \in BM25Queries, kf \in BM25SearchArgs :
          LET out == BM25Search(bm25, query, kf[1], kf[2])
          IN  /\ bm25' = out.self
              /\ last' = [op |-> "search", query |-> query, k |-> kf[1], factor10 |-> kf[2],
                          raised |-> out.raised, value |-> out.value]
    /\ UNCHANGED <<heap, vindex, retriever>>

BM25Next == BM25DoAddDocument \/ BM25DoAddDocuments \/ BM25DoSearch \/ Return

BM25Spec == BM25Init /\ [][BM25Next]_vars

----------------------------------------------------------------------------
(* BM25Index on the three documents of the lexical scenario *)

S_catmat ==
    <<"t", "h", "e", " ", "c", "a", "t", " ", "s", "a", "t", " ", "o", "n", " ", "t", "h", "e", " ", "m", "a", "t">>

S_dogsbark ==
    <<"d", "o", "g", "s", " ", "b", "a", "r", "k", " ", "l", "o", "u", "d", "l", "y">>

S_catspets ==
    <<"c", "a", "t", "s", " ", "a", "n", "d", " ", "d", "o", "g", "s", " ", "a", "r", "e", " ", "p", "e", "t", "s">>

T_cats == <<"c", "a", "t", "s">>

T_dogs == <<"d", "o", "g", "s">>

T_the == <<"t", "h", "e">>

\* the contents of documents 0, 1 and 2 of the scenario
ScenarioDocs == <<S_catmat, S_dogsbark, S_catspets>>

ScenarioQueries ==
    {StrArg(T_cat), StrArg(T_cats), StrArg(T_dogs), StrArg(T_the), StrArg(T_Cat), StrArg(T_punct)}

\* the largest k of the searches
ScenarioMaxK == 4

\* the scenario documents that are not stored yet, in scenario order
RECURSIVE NotStored(_, _, _)
NotStored(ix, hp, i) ==
    IF i > Len(ScenarioDocs) THEN <<>>
    ELSE (IF \E p \in 1..Len(ix.documents) : hp[ix.documents[p]].content = Str(ScenarioDocs[i])
          THEN <<>> ELSE <<NewDoc(Str(ScenarioDocs[i]), NoId)>>)
           \o NotStored(ix, hp, i + 1)

ScenarioInit ==
    /\ heap = <<>>
    /\ vindex = NoIndex
    /\ bm25 = NewBM25Index
    /\ retriever = NoIndex
    /\ last = Idle

\* add_document of one of the documents not stored yet
ScenarioAddDocument ==
    /\ last = Idle
    /\ \E i \in 1..Len(NotStored(bm25, heap, 1)) :
          LET arg == [new |-> NotStored(bm25, heap, 1)[i]]
              hp  == HeapWith(heap, arg)
              out == BM25AddDocument(bm25, hp, RefOf(heap, arg))
          IN  /\ bm25' = out.self
              /\ heap' = Live(hp, Range(out.self.documents))
              /\ last' = [op |-> "add_document", arg |-> arg, raised |-> out.raised]
    /\ UNCHANGED <<vindex, retriever>>

\* add_documents of all the documents not stored yet
ScenarioAddDocuments ==
    /\ last = Idle
    /\ Len(NotStored(bm25, heap, 1)) >= 2
    /\ LET docs == NotStored(bm25, heap, 1)
           hp   == Alloc(heap, docs)
           refs == [i \in 1..Len(docs) |-> Len(heap) + i]
           out  == BM25AddDocuments(bm25, hp, ListArg(refs))
       IN  /\ bm25' = out.self
           /\ heap' = Live(hp, Range(out.self.documents))
           /\ last' = [op |-> "add_documents", docs |-> docs, islist |-> TRUE,
                       raised |-> out.raised]
    /\ UNCHANGED <<vindex, retriever>>

ScenarioSearch ==
    /\ last = Idle
    /\ \E query \in ScenarioQueries, k \in 1..ScenarioMaxK :
          LET out == BM25Search(bm25, query, k, DefaultFactor)
          IN  /\ bm25' = out.self
              /\ last' = [op |-> "search", query |-> query, k |-> k, factor10 |-> DefaultFactor,
                          raised |-> out.raised, value |-> out.value]
    /\ UNCHANGED <<heap, vindex, retriever>>

ScenarioNext == ScenarioAddDocument \/ ScenarioAddDocuments \/ ScenarioSearch \/ Return

ScenarioSpec == ScenarioInit /\ [][ScenarioNext]_vars

----------------------------------------------------------------------------
(* A VectorIndex and a BM25Index side by side, each called on its own *)

\* the largest number of documents in each of the two indexes
MaxEach == 2

IndexContents == {Str(T_cat), Str(T_empty), NoContent}

IndexQueries == {StrArg(T_cat), StrArg(T_punct), ListArg(<<1, 0>>), OtherArg}

IndexInit ==
    /\ heap = <<>>
    /\ vindex \in {NewVectorIndex("cosine", e) : e \in BOOLEAN}
    /\ bm25 = NewBM25Index
    /\ retriever = NoIndex
    /\ last = Idle

\* the heap once the call is over: the dicts an index holds
Kept(hp, vi, bm) == Live(hp, Range(vi.documents) \cup Range(bm.documents))

IndexVecAddDocument ==
    /\ last = Idle
    /\ Len(vindex.vectors) < MaxEach
    /\ \E arg \in DocArgs({}, IndexContents, {NoId}) :
          LET hp  == HeapWith(heap, arg)
              out == AddDocument(vindex, hp, RefOf(heap, arg))
          IN  /\ vindex' = out.self
              /\ heap' = Kept(hp, out.self, bm25)
              /\ last' = [op |-> "add_document", index |-> "vector", arg |-> arg,
                          raised |-> out.raised]
    /\ UNCHANGED <<bm25, retriever>>

IndexVecAddDocuments ==
    /\ last = Idle
    /\ \E docs \in Batches(IndexContents, {NoId}) :
          /\ Len(vindex.vectors) + Len(docs) <= MaxEach
          /\ LET hp   == Alloc(heap, docs)
                 refs == [i \in 1..Len(docs) |-> Len(heap) + i]
                 out  == AddDocuments(vindex, hp, ListArg(refs))
             IN  /\ vindex' = out.self
                 /\ heap' = Kept(hp, out.self, bm25)
                 /\ last' = [op |-> "add_documents", index |-> "vector", docs |-> docs,
                             before |-> vindex, raised |-> out.raised]
    /\ UNCHANGED <<bm25, retriever>>

IndexVecSearch ==
    /\ last = Idle
    /\ \E query \in IndexQueries, k \in -1..MaxK :
          LET out == VectorSearch(vindex, query, k)
          IN  last' = [op |-> "search", index |-> "vector", query |-> query, k |-> k,
                       raised |-> out.raised, value |-> out.value]
    /\ UNCHANGED <<heap, vindex, bm25, retriever>>

IndexBM25AddDocument ==
    /\ last = Idle
    /\ Len(bm25.documents) < MaxEach
    /\ \E arg \in DocArgs({}, IndexContents, {NoId}) :
          LET hp  == HeapWith(heap, arg)
              out == BM25AddDocument(bm25, hp, RefOf(heap, arg))
          IN  /\ bm25' = out.self
              /\ heap' = Kept(hp, vindex, out.self)
              /\ last' = [op |-> "add_document", index |-> "bm25", arg |-> arg,
                          raised |-> out.raised]
    /\ UNCHANGED <<vindex, retriever>>

IndexBM25AddDocuments ==
    /\ last = Idle
    /\ \E docs \in Batches(IndexContents, {NoId}) :
          /\ Len(bm25.documents) + Len(docs) <= MaxEach
          /\ LET hp   == Alloc(heap, docs)
                 refs == [i \in 1..Len(docs) |-> Len(heap) + i]
                 out  == BM25AddDocuments(bm25, hp, ListArg(refs))
             IN  /\ bm25' = out.self
                 /\ heap' = Kept(hp, vindex, out.self)
                 /\ last' = [op |-> "add_documents", index |-> "bm25", docs |-> docs,
                             before |-> bm25, raised |-> out.raised]
    /\ UNCHANGED <<vindex, retriever>>

IndexBM25Search ==
    /\ last = Idle
    /\ \E query \in IndexQueries, k \in -1..MaxK :
          LET out == BM25Search(bm25, query, k, DefaultFactor)
          IN  /\ bm25' = out.self
              /\ last' = [op |-> "search", index |-> "bm25", query |-> query, k |-> k,
                          before |-> bm25, raised |-> out.raised, value |-> out.value]
    /\ UNCHANGED <<heap, vindex, retriever>>

IndexNext ==
    \/ IndexVecAddDocument \/ IndexVecAddDocuments \/ IndexVecSearch
    \/ IndexBM25AddDocument \/ IndexBM25AddDocuments \/ IndexBM25Search
    \/ Return

IndexSpec == IndexInit /\ [][IndexNext]_vars

----------------------------------------------------------------------------
(* _compute_bm25_score as a function of the term frequencies of one document,
   the statistics of a corpus held fixed *)

\* the largest number of documents of a corpus
MaxCorpus == 3

CorpusContents == {T_cat, T_dog, T_catdog, S_dogsbark}

ScoreQueries == {T_cat, T_catdog}

\* the index after add_documents of the given contents and _build_index
RECURSIVE StoreAll(_, _, _)
StoreAll(ix, hp, i) ==
    IF i > Len(hp) THEN BuildIndex(ix)
    ELSE StoreAll(StoreDocument(ix, hp, i), hp, i + 1)

ScoreInit ==
    /\ \E n \in 1..MaxCorpus : heap \in [1..n -> {NewDoc(Str(c), NoId) : c \in CorpusContents}]
    /\ bm25 = StoreAll(NewBM25Index, heap, 1)
    /\ vindex = NoIndex
    /\ retriever = NoIndex
    /\ last = Idle

\* the score of a document whose tokens are doc_tokens, the length of the
\* document and the statistics of the index being what they are
ScoreOf(query_tokens, doc_index, doc_tokens) ==
    ComputeBM25Score([bm25 EXCEPT !.corpus_tokens[doc_index] = doc_tokens],
                     query_tokens, doc_index)

\* _compute_bm25_score(query_tokens, doc_index) on the index as built
ScoreDocument ==
    /\ last = Idle
    /\ \E query \in ScoreQueries, doc_index \in 1..Len(bm25.documents) :
          last' = [op |-> "score", query_tokens |-> Tokenize(query), doc_index |-> doc_index,
                   doc_tokens |-> bm25.corpus_tokens[doc_index], previous |-> 0,
                   value |-> ScoreOf(Tokenize(query), doc_index, bm25.corpus_tokens[doc_index])]
    /\ UNCHANGED <<heap, vindex, bm25, retriever>>

\* the same computation with one more occurrence of a query term in the
\* document, in the place of a token the query does not hold
ScoreMoreOccurrences ==
    /\ last # Idle /\ last.op = "score"
    /\ \E p \in 1..Len(last.doc_tokens), q \in 1..Len(last.query_tokens) :
          /\ last.doc_tokens[p] \notin Range(last.query_tokens)
          /\ LET doc_tokens == [last.doc_tokens EXCEPT ![p] = last.query_tokens[q]]
             IN  last' = [last EXCEPT !.doc_tokens = doc_tokens,
                                      !.previous = last.value,
                                      !.value = ScoreOf(last.query_tokens, last.doc_index,
                                                        doc_tokens)]
    /\ UNCHANGED <<heap, vindex, bm25, retriever>>

ScoreNext == ScoreDocument \/ ScoreMoreOccurrences \/ Return

ScoreSpec == ScoreInit /\ [][ScoreNext]_vars

----------------------------------------------------------------------------
(* The Retriever over a VectorIndex and a BM25Index *)

\* identifiers: what the callers give and what random.choices can draw
Ids == {"a", "b"}

\* the identifiers add_document may draw: only a reranking looks documents
\* up by identifier, so without a reranker one draw stands for all
IdDraws == IF retriever.reranker_fn THEN Ids ELSE {"a"}

\* the documents given to add_document: the retriever draws their id
RDocs == {NewDoc(Str(T_cat), NoId), NewDoc(Str(T_catcat), NoId), NewDoc(NoContent, NoId)}

\* the documents given to add_documents, which assigns no id
RBatchDocs == {NewDoc(Str(T_dog), NoId), NewDoc(NoContent, NoId)}

RQueries == {StrArg(T_cat), StrArg(T_catdog)}

\* the (query, k, k_rrf) of the searches: the valid ones, and one for each
\* argument check
RSearchArgs ==
    {<<q, k, 60>> : q \in RQueries, k \in 1..MaxK}
      \cup {<<StrArg(T_cat), MaxK, 0>>}
      \cup {<<OtherArg, 1, 60>>, <<StrArg(T_cat), 0, 60>>, <<StrArg(T_cat), 1, -1>>}

\* what a reranker can return: identifiers of candidates or not, in any
\* order, repeated or not
RerankOutputs == {<<"a">>, <<"a", "a">>, <<"b", "x", "a">>}

\* the identifiers random.choices draws in one search: one for each fused
\* candidate that has none, when a reranker is set
NewIdChoices(rt, hp, fused) ==
    IF fused.raised # None \/ ~rt.reranker_fn THEN {<<>>}
    ELSE [1..Cardinality({p \in 1..Len(fused.value.result) :
                             hp[fused.value.result[p].doc].id = NoId}) -> Ids]

Stored == Range(vindex.documents) \cup Range(bm25.documents)

Init ==
    /\ heap = <<>>
    /\ vindex = NewVectorIndex("cosine", TRUE)
    /\ bm25 = NewBM25Index
    /\ retriever = NoIndex
    /\ last = Idle

\* the Retriever(*indexes, reranker_fn=...) calls: the indexes by kind, and
\* whether a reranker is given
Constructions ==
    {<<<<>>, FALSE>>, <<<<"vector", "bm25">>, FALSE>>, <<<<"bm25", "vector">>, FALSE>>,
     <<<<"bm25">>, TRUE>>}

\* Retriever.__init__: there is a retriever unless the constructor raised
DoConstruct ==
    /\ last = Idle
    /\ retriever = NoIndex
    /\ \E c \in Constructions :
          LET out == NewRetriever(c[1], c[2])
          IN  /\ retriever' = IF out.raised = None THEN out.self ELSE NoIndex
              /\ last' = [op |-> "init", indexes |-> c[1], raised |-> out.raised]
    /\ UNCHANGED <<heap, vindex, bm25>>

\* the world after a call becomes the state; dicts no index holds are dropped
Becomes(w) ==
    /\ vindex' = w.vector
    /\ bm25' = w.bm25
    /\ heap' = Live(w.heap, Range(w.vector.documents) \cup Range(w.bm25.documents))

\* add_document returns or raises: the caller holds the outcome
AddDocumentDone(arg, document, out) ==
    /\ Becomes(out.world)
    /\ last' = [op |-> "add_document", arg |-> arg, document |-> document,
                after |-> out.world.heap[document], raised |-> out.raised]

DoAddDocument ==
    /\ last = Idle
    /\ retriever # NoIndex
    /\ Len(vindex.documents) < MaxStored /\ Len(bm25.documents) < MaxStored
    /\ \E arg \in {[ref |-> r] : r \in 1..Len(heap)} \cup {[new |-> d] : d \in RDocs},
          new_id \in IdDraws :
          AddDocumentDone(arg, RefOf(heap, arg),
                          RetrieverAddDocument(retriever,
                                               World(HeapWith(heap, arg), vindex, bm25),
                                               RefOf(heap, arg), new_id))
    /\ UNCHANGED retriever

\* add_documents returns or raises: the caller holds the outcome
AddDocumentsDone(docs, out) ==
    /\ Becomes(out.world)
    /\ last' = [op |-> "add_documents", docs |-> docs, raised |-> out.raised]

DoAddDocuments ==
    /\ last = Idle
    /\ retriever # NoIndex
    /\ \E docs \in UNION {[1..n -> RBatchDocs] : n \in 0..MaxBatch} :
          /\ Len(vindex.documents) + Len(docs) <= MaxStored
          /\ Len(bm25.documents) + Len(docs) <= MaxStored
          /\ AddDocumentsDone(docs,
                RetrieverAddDocuments(retriever.indexes,
                                      World(Alloc(heap, docs), vindex, bm25),
                                      ListArg([i \in 1..Len(docs) |-> Len(heap) + i])))
    /\ UNCHANGED retriever

\* the search returns or raises: the caller holds the outcome
SearchDone(args, fused, reranker_calls, reranked_ids, out) ==
    /\ Becomes(out.world)
    /\ last' = [op |-> "search", query |-> args[1], k |-> args[2], k_rrf |-> args[3],
                all_results |-> IF fused.raised = None
                                THEN fused.value.all_results ELSE <<>>,
                fused |-> IF fused.raised = None THEN fused.value.result ELSE <<>>,
                reranker_calls |-> reranker_calls,
                reranked_ids |-> reranked_ids,
                raised |-> out.raised, value |-> out.value]

\* the reranking step, whatever identifiers are drawn and whatever the
\* reranker returns
SearchRerank(args, fused) ==
    \E new_ids \in NewIdChoices(retriever, heap, fused),
       reranked_ids \in IF retriever.reranker_fn THEN RerankOutputs ELSE {<<>>} :
       SearchDone(args, fused,
                  RerankerCalls(retriever, fused, args[1], args[2], new_ids),
                  reranked_ids,
                  FinishSearch(retriever, fused, new_ids, reranked_ids))

DoSearch ==
    /\ last = Idle
    /\ retriever # NoIndex
    /\ \E args \in RSearchArgs :
          SearchRerank(args, SearchAndFuse(retriever, World(heap, vindex, bm25),
                                           args[1], args[2], args[3]))
    /\ UNCHANGED retriever

Next == DoConstruct \/ DoAddDocument \/ DoAddDocuments \/ DoSearch \/ Return

Spec == Init /\ [][Next]_vars

----------------------------------------------------------------------------
(* Claims on VectorIndex (VecSpec) *)

QueryVector(query) == IF query.kind = "str" THEN Embed(query.text) ELSE query.list

\* the query is one search accepts on the non-empty index
ValidQuery(ix, query) ==
    /\ query.kind \in {"str", "list"}
    /\ query.kind = "str" => ix.embedding_fn
    /\ Len(QueryVector(query)) = ix.vector_dim

SearchReturned == last.op = "search" /\ last.raised = None

\* C7: once the first vector is stored the fixed dimension never changes, a
\* later add_vector with a vector of another length fails (and stores
\* nothing), and every stored vector has the fixed dimension.
C7_DimensionInvariant ==
    [][/\ vindex.vectors # <<>> => vindex'.vector_dim = vindex.vector_dim
       /\ (/\ last'.op = "add_vector"
           /\ vindex.vectors # <<>>
           /\ last'.vector.kind = "list"
           /\ Len(last'.vector.list) # vindex.vector_dim)
          => (last'.raised # None /\ vindex' = vindex)
       /\ \A i \in 1..Len(vindex'.vectors) :
             Len(vindex'.vectors[i]) = vindex'.vector_dim]_vars

\* an add_vector of a valid document failed on the vector's length alone
C7_Witness ==
    /\ last.op = "add_vector"
    /\ last.raised = "ValueError"
    /\ last.vector.kind = "list"
    /\ IsNew(last.arg) /\ last.arg.new.content = Str(T_dog)
    /\ vindex.vectors # <<>>
    /\ Len(last.vector.list) # vindex.vector_dim

\* C8: search with k > 0 on n >= 1 vectors returns min(k, n) pairs, each a
\* stored document with its distance to the query, in non-decreasing order of
\* distance, and no stored document left out is strictly closer than a
\* returned one.
C8_SearchClosest ==
    (/\ last.op = "search" /\ last.k > 0
     /\ vindex.vectors # <<>>
     /\ ValidQuery(vindex, last.query))
    => LET qv == QueryVector(last.query)
           n  == Len(vindex.vectors)
           dist(i) == Distance(vindex, qv, vindex.vectors[i])
           res == last.value
           got == {res[p].doc : p \in 1..Len(res)}
       IN  /\ last.raised = None
           /\ Len(res) = Min(last.k, n)
           /\ Cardinality(got) = Len(res)
           /\ \A p \in 1..Len(res) :
                 \E i \in 1..n : vindex.documents[i] = res[p].doc /\ res[p].score = dist(i)
           /\ \A p \in 1..(Len(res) - 1) : ~DistLess(res[p + 1].score, res[p].score)
           /\ \A i \in 1..n : vindex.documents[i] \notin got =>
                 \A p \in 1..Len(res) : ~DistLess(dist(i), res[p].score)

\* k = 1 of 2: the document inserted second is strictly closer and is the one
\* returned
C8_Witness ==
    /\ SearchReturned /\ last.k = 1
    /\ Len(vindex.vectors) = 2
    /\ Len(last.value) = 1
    /\ last.value[1].doc = vindex.documents[2]
    /\ DistLess(last.value[1].score,
                Distance(vindex, QueryVector(last.query), vindex.vectors[1]))

\* the case of C9: a cosine index of at least 2 documents is searched with a
\* query vector equal to a stored one
C9_Case ==
    /\ last.op = "search" /\ last.k > 0
    /\ vindex.distance_metric = "cosine"
    /\ Len(vindex.vectors) >= 2
    /\ ValidQuery(vindex, last.query)
    /\ \E i \in 1..Len(vindex.vectors) : vindex.vectors[i] = QueryVector(last.query)

\* v points the way q does: a positive multiple of it, or both are zero
SameDirection(v, q) ==
    /\ Len(v) = Len(q)
    /\ \E a \in 1..4, b \in 1..4 : \A c \in 1..Len(v) : a * v[c] = b * q[c]

StoredIn(ix) == IF ix = NoIndex THEN {} ELSE Range(ix.documents)

\* a content that is a non-empty string
ValidContent(content) == content.t = "str" /\ content.text # <<>>

\* the documents supplied to the insertion that has just been called
Supplied ==
    IF last.op \in {"add_vector", "add_document"}
    THEN (IF IsNew(last.arg) THEN {last.arg.new} ELSE {})
    ELSE IF last.op = "add_documents" THEN Range(last.docs)
    ELSE {}

\* C14: an insertion that is supplied a document with no content field, a
\* content that is not a string or an empty string as content fails, and no
\* such document is stored in an index.
C14_ContentRequired ==
    /\ \A d \in StoredIn(vindex) \cup StoredIn(bm25) : ValidContent(heap[d].content)
    /\ (\E doc \in Supplied : ~ValidContent(doc.content)) => last.raised # None

\* the three conditions under which the search of a non-empty index fails
RejectedSearch(ix, call) ==
    \/ call.k <= 0
    \/ call.query.kind = "str" /\ ~ix.embedding_fn
    \/ call.query.kind = "list" /\ Len(call.query.list) # ix.vector_dim
    \/ call.query.kind = "str" /\ ix.embedding_fn
          /\ Len(Embed(call.query.text)) # ix.vector_dim

\* C16: on a non-empty VectorIndex a search with k <= 0, with a query vector
\* whose length is not the fixed dimension, or with a text query when no
\* embedding function is configured raises and returns nothing; the stored
\* vectors, the documents and the fixed dimension are as before the call.
C16_SearchRejected ==
    [][(/\ last = Idle /\ last'.op = "search"
        /\ vindex.vectors # <<>>
        /\ RejectedSearch(vindex, last'))
       => /\ last'.raised # None /\ last'.value = <<>>
          /\ UNCHANGED <<vindex, heap>>]_vars

\* a vector query of the fixed dimension with k = 0 has raised on an index
\* of two vectors
C16_Witness ==
    /\ last.op = "search" /\ last.raised = "ValueError"
    /\ Len(vindex.vectors) = 2
    /\ last.k = 0
    /\ last.query.kind = "list" /\ Len(last.query.list) = vindex.vector_dim

----------------------------------------------------------------------------
(* Claims on BM25Index (BM25Spec) *)

\* the raw score search computed for the stored document doc
RawOf(doc) ==
    LET i == CHOOSE i \in 1..Len(bm25.documents) : bm25.documents[i] = doc
    IN  ComputeBM25Score(bm25, Tokenize(last.query.text), i)

\* C10 as claimed: of two returned documents the one with the higher raw
\* score has the strictly lower normalized score and is placed first,
\* whatever the score_normalization_factor.
C10_NormalizationDirection ==
    (SearchReturned /\ last.value # <<>>) =>
       \A p \in 1..Len(last.value), q \in 1..Len(last.value) :
          RawOf(last.value[p].doc) > RawOf(last.value[q].doc)
          => (NormLess(last.value[p].score, last.value[q].score) /\ p < q)

\* C10 amended: for a factor >= 0 the one with the higher raw score has no
\* higher normalized score and is placed first; the normalized score is
\* strictly lower when the factor is > 0.
C10_NonNegativeFactor ==
    (SearchReturned /\ last.value # <<>> /\ last.factor10 >= 0) =>
       \A p \in 1..Len(last.value), q \in 1..Len(last.value) :
          RawOf(last.value[p].doc) > RawOf(last.value[q].doc)
          => /\ ~NormLess(last.value[q].score, last.value[p].score)
             /\ p < q
             /\ last.factor10 > 0 => NormLess(last.value[p].score, last.value[q].score)

\* the default factor: the document inserted second has the higher raw score
\* and is returned first
C10_Witness ==
    /\ SearchReturned /\ last.factor10 = 1
    /\ Len(last.value) = 2
    /\ last.value[1].doc = bm25.documents[2]
    /\ RawOf(last.value[1].doc) > RawOf(last.value[2].doc)
    /\ NormLess(last.value[1].score, last.value[2].score)

\* the tokens of the stored document doc
TokensOf(doc) == Range(Tokenize(heap[doc].content.text))

\* the tokens of the query of the last search
QueryTokens == Range(Tokenize(last.query.text))

\* C11: a document that shares no token with the tokenized query never
\* appears in the result of BM25Index.search: every returned document holds
\* at least one token of the query.
C11_NoOverlapExcluded ==
    SearchReturned =>
       \A p \in 1..Len(last.value) : TokensOf(last.value[p].doc) \cap QueryTokens # {}

\* a search with k no smaller than the index returns one of two stored
\* documents; the other shares no token with the query
C11_Witness ==
    /\ SearchReturned /\ Len(last.value) = 1
    /\ Len(bm25.documents) = 2 /\ last.k >= 2
    /\ \E i \in 1..2 : /\ bm25.documents[i] # last.value[1].doc
                       /\ TokensOf(bm25.documents[i]) # {}
                       /\ TokensOf(bm25.documents[i]) \cap QueryTokens = {}

\* the raw score of the document stored at position i for the last query
RawAt(i) == ComputeBM25Score(bm25, Tokenize(last.query.text), i)

\* the positions of the stored documents whose raw score exceeds the epsilon
Scoring == {i \in 1..Len(bm25.documents) : AboveEpsilon(RawAt(i))}

\* C12: BM25Index.search with k > 0 returns exactly min(k, m) documents, m
\* being the number of stored documents whose raw score exceeds the epsilon;
\* they are distinct scoring documents, and no scoring document left out has
\* a strictly higher raw score than a returned one.
C12_TopKByRawScore ==
    (SearchReturned /\ last.k > 0) =>
       LET returned == {last.value[p].doc : p \in 1..Len(last.value)}
       IN  /\ Len(last.value) = Min(last.k, Cardinality(Scoring))
           /\ Cardinality(returned) = Len(last.value)
           /\ returned \subseteq {bm25.documents[i] : i \in Scoring}
           /\ \A i \in Scoring :
                 bm25.documents[i] \notin returned
                 => \A d \in returned : RawOf(d) >= RawAt(i)

\* k = 1 with two scoring documents: the one inserted second has the strictly
\* higher raw score and is the one returned
C12_Witness ==
    /\ SearchReturned /\ last.k = 1
    /\ Scoring = {1, 2}
    /\ RawAt(2) > RawAt(1)
    /\ Len(last.value) = 1 /\ last.value[1].doc = bm25.documents[2]

\* the terms of the corpus the index holds
CorpusTerms(ix) == UNION {Range(ix.corpus_tokens[i]) : i \in 1..Len(ix.corpus_tokens)}

\* the derived statistics are those of the documents the index holds
Fresh(ix) ==
    /\ ix.index_built
    /\ ix.avg_doc_len = [num |-> SumSeq(ix.doc_len), den |-> Len(ix.documents)]
    /\ DOMAIN ix.idf = CorpusTerms(ix)
    /\ \A term \in DOMAIN ix.idf :
          ix.idf[term] = Ln(2 * Len(ix.documents) + 2, 2 * ix.doc_freqs[term] + 1)

\* C22: a search that computes scores (it returns, on an index that holds
\* documents) works on an average document length that is the sum of the
\* stored lengths over the number of stored documents and on an IDF table
\* with one entry per term of the corpus, computed from the current document
\* count and frequencies; an insertion that stores at least one document
\* marks the statistics stale and does not recompute them.
C22_NeverStale ==
    [][/\ (last = Idle /\ last'.op = "search" /\ last'.raised = None /\ bm25.documents # <<>>)
          => Fresh(bm25')
       /\ (last = Idle /\ last'.op \in {"add_document", "add_documents"}
             /\ Len(bm25'.documents) > Len(bm25.documents))
          => /\ ~bm25'.index_built
             /\ bm25'.avg_doc_len = bm25.avg_doc_len
             /\ bm25'.idf = bm25.idf]_vars

\* a document with a new term has been added to an index whose statistics had
\* been computed: they are stale, and marked so
C22_Witness ==
    /\ last.op = "add_document" /\ last.raised = None
    /\ ~bm25.index_built
    /\ bm25.idf # <<>>
    /\ bm25.avg_doc_len.den # Len(bm25.documents)
    /\ CorpusTerms(bm25) # DOMAIN bm25.idf

\* the positions of the stored documents whose tokens hold the term
DocsWith(ix, term) == {i \in 1..Len(ix.corpus_tokens) : term \in Range(ix.corpus_tokens[i])}

\* C23: the stored token lists are those of the stored documents, and for
\* every term the stored document frequency is the number of stored
\* documents whose tokens hold the term at least once: the recorded terms are
\* the terms of the corpus and 1 <= df(t) <= number of stored documents.
C23_DocumentFrequency ==
    /\ Len(bm25.corpus_tokens) = Len(bm25.documents)
    /\ \A i \in 1..Len(bm25.documents) :
          bm25.corpus_tokens[i] = Tokenize(heap[bm25.documents[i]].content.text)
    /\ DOMAIN bm25.doc_freqs = CorpusTerms(bm25)
    /\ \A term \in DOMAIN bm25.doc_freqs :
          /\ bm25.doc_freqs[term] = Cardinality(DocsWith(bm25, term))
          /\ 1 <= bm25.doc_freqs[term] /\ bm25.doc_freqs[term] <= Len(bm25.documents)

\* two documents hold a term, one of them twice: its frequency is 2
C23_Witness ==
    /\ last.op \in {"add_document", "add_documents"} /\ last.raised = None
    /\ Len(bm25.documents) = 2
    /\ \E term \in DOMAIN bm25.doc_freqs :
          /\ bm25.doc_freqs[term] = 2
          /\ \E i \in 1..2 : CountOf(bm25.corpus_tokens[i], term) = 2

----------------------------------------------------------------------------
(* Claims on the lexical scenario (ScenarioSpec) *)

\* the index holds documents 0, 1, 2 of the scenario in this order and a
\* search for "cat" with k >= 3 has returned
ScenarioSearched ==
    /\ SearchReturned /\ last.query = StrArg(T_cat) /\ last.k >= 3
    /\ Len(bm25.documents) = 3
    /\ \A i \in 1..3 : heap[bm25.documents[i]].content = Str(ScenarioDocs[i])

\* the positions in the result of the document stored at position i
PlacesOf(i) == {p \in 1..Len(last.value) : last.value[p].doc = bm25.documents[i]}

\* C13 as claimed: the search for "cat" returns document 0 ranked above
\* document 2, and does not return document 1.
C13_CatAboveCats ==
    ScenarioSearched =>
       /\ \E p \in PlacesOf(1), q \in PlacesOf(3) : p < q
       /\ PlacesOf(2) = {}

\* C13 amended: the search for "cat" returns document 0 alone: document 1
\* and document 2 (whose token is "cats") hold no token of the query.
C13_CatAlone ==
    ScenarioSearched =>
       /\ Len(last.value) = 1 /\ PlacesOf(1) = {1}
       /\ PlacesOf(2) = {} /\ PlacesOf(3) = {}

\* the scenario itself; a search for "cats" would have found document 2
C13_Witness ==
    /\ ScenarioSearched
    /\ last.value # <<>>
    /\ ComputeBM25Score(bm25, Tokenize(T_cats), 3) > 0

----------------------------------------------------------------------------
(* Claims on the two indexes (IndexSpec) *)

\* the search of the index named has returned the empty list
ReturnedEmpty == last.raised = None /\ last.value = <<>>

\* every stored document tokenizes to nothing: the average length is zero
NoTokenStored ==
    \A i \in 1..Len(bm25.documents) : Tokenize(heap[bm25.documents[i]].content.text) = <<>>

\* C17: a search of an empty VectorIndex and a search of an empty BM25Index
\* return the empty list whatever k (and whatever the query); a search of a
\* BM25Index for a string with k > 0 returns the empty list when the query
\* tokenizes to no token and when every stored document tokenizes to
\* nothing (the average document length is zero).
C17_DegenerateEmpty ==
    last.op = "search" =>
       /\ (last.index = "vector" /\ vindex.vectors = <<>>) => ReturnedEmpty
       /\ (last.index = "bm25" /\ bm25.documents = <<>>) => ReturnedEmpty
       /\ (/\ last.index = "bm25" /\ last.query.kind = "str" /\ last.k > 0
           /\ (Tokenize(last.query.text) = <<>> \/ NoTokenStored))
          => ReturnedEmpty

\* a search for "cat" with k > 0 has returned the empty list from a BM25Index
\* that holds documents, all of them empty
C17_Witness ==
    /\ last.op = "search" /\ last.index = "bm25" /\ ReturnedEmpty
    /\ last.query = StrArg(T_cat) /\ last.k > 0
    /\ bm25.documents # <<>> /\ NoTokenStored
    /\ bm25.index_built /\ bm25.avg_doc_len.num = 0

\* add_document(d1); ...; add_document(dn) on the index of the given kind:
\* the sequence ends at the first call that raises
RECURSIVE OneByOne(_, _, _, _)
OneByOne(kind, ix, hp, documents) ==
    IF documents = <<>> THEN Outcome(ix, None)
    ELSE LET one == IF kind = "vector" THEN AddDocument(ix, hp, Head(documents))
                    ELSE BM25AddDocument(ix, hp, Head(documents))
         IN  IF one.raised # None THEN one
             ELSE OneByOne(kind, one.self, hp, Tail(documents))

\* the outcome of the single insertions of the batch that add_documents was
\* just called with, from the index as it was before that call
Single ==
    LET hp == Alloc(heap, last'.docs)
        documents == [i \in 1..Len(last'.docs) |-> Len(heap) + i]
    IN  OneByOne(last'.index, last'.before, hp, documents)

\* the index add_documents was called on, after the call
BatchIndex == IF last'.index = "vector" THEN vindex' ELSE bm25'

\* add_documents has just been called (on a VectorIndex: one with an
\* embedding function)
BatchCalled ==
    /\ last = Idle /\ last'.op = "add_documents"
    /\ last'.index = "vector" => vindex.embedding_fn

\* the two indexes hold the same documents and agree on every attribute
SameIndex(a, b) == a.documents = b.documents /\ a = b

\* every document of the batch has a string for content
AllValid(docs) == \A i \in 1..Len(docs) : docs[i].content.t = "str"

C26_FailedInsertionAtomic ==
    [][(/\ last = Idle
        /\ last'.op \in {"add_vector", "add_document", "add_documents"}
        /\ last'.raised # None)
       => UNCHANGED <<vindex, bm25>>]_vars

\* C29: a search of either index leaves the stored documents, the vectors,
\* the fixed dimension, the token lists, the document lengths and the document
\* frequencies as they were; and the same BM25 search made again straight
\* after one, with no insertion in between, returns or raises the same and
\* leaves the average length, the IDF table and the built flag unchanged.
C29_SearchReadOnly ==
    [][(last = Idle /\ last'.op = "search") =>
           /\ heap' = heap
           /\ vindex'.documents = vindex.documents
           /\ vindex'.vectors = vindex.vectors
           /\ vindex'.vector_dim = vindex.vector_dim
           /\ bm25'.documents = bm25.documents
           /\ bm25'.corpus_tokens = bm25.corpus_tokens
           /\ bm25'.doc_len = bm25.doc_len
           /\ bm25'.doc_freqs = bm25.doc_freqs
           /\ last'.index = "bm25" =>
                 LET again == BM25Search(bm25', last'.query, last'.k, DefaultFactor)
                 IN  /\ again.raised = last'.raised
                     /\ again.value = last'.value
                     /\ again.self.avg_doc_len = bm25'.avg_doc_len
                     /\ again.self.idf = bm25'.idf
                     /\ again.self.index_built = bm25'.index_built]_vars

\* a BM25 search has built the index and returned documents
C29_Witness ==
    /\ last.op = "search" /\ last.index = "bm25" /\ last.raised = None
    /\ ~last.before.index_built /\ bm25.index_built
    /\ last.before.documents = bm25.documents
    /\ last.value # <<>>

----------------------------------------------------------------------------
(* Claims on the BM25 score (ScoreSpec) *)

\* C20: the statistics of the corpus, the length of the document, k1, b and
\* the query being the same, the raw score computed for a document with one
\* more occurrence of a query term is never lower.
C20_ScoreMonotone ==
    [][(last # Idle /\ last.op = "score" /\ last'.op = "score")
       => last'.value >= last.value]_vars

\* a query term occurs three times in a document where it did not occur; the
\* last occurrence has raised the score again
C20_Witness ==
    /\ last.op = "score"
    /\ last.value > last.previous /\ last.previous > 0
    /\ \E q \in 1..Len(last.query_tokens) :
          /\ CountOf(last.doc_tokens, last.query_tokens[q]) = 3
          /\ CountOf(bm25.corpus_tokens[last.doc_index], last.query_tokens[q]) = 0

----------------------------------------------------------------------------
(* Claims on the Retriever (Spec) *)

\* the positions of doc in one index's result list
Positions(results, doc) == {p \in 1..Len(results) : results[p].doc = doc}

\* the documents of the candidate lists the indexes returned
Candidates(all_results) ==
    UNION {{all_results[i][p].doc : p \in 1..Len(all_results[i])} :
             i \in 1..Len(all_results)}

DocsOf(result) == {result[p].doc : p \in 1..Len(result)}

\* the sum, over the lists from the i-th on that contain doc, of 1/(k_rrf + r),
\* r being the first (first = TRUE) or the last position of doc in the list
RECURSIVE RankSum(_, _, _, _, _)
RankSum(all_results, doc, k_rrf, first, i) ==
    IF i > Len(all_results) THEN Frac(0, 1)
    ELSE LET ps == Positions(all_results[i], doc)
             r  == IF first THEN CHOOSE p \in ps : \A x \in ps : p <= x
                   ELSE CHOOSE p \in ps : \A x \in ps : x <= p
         IN  FracAdd(IF ps = {} THEN Frac(0, 1) ELSE Frac(1, k_rrf + r),
                     RankSum(all_results, doc, k_rrf, first, i + 1))

\* C1: a search that returns gives at most k pairs, with or without a
\* reranker, whatever the reranker returns.
C1_AtMostK == SearchReturned => Len(last.value) <= last.k

\* C2: without a reranker the search asks every index for 5 * k candidates;
\* it returns min(k, number of candidates) distinct candidates, each with the
\* fusion score the search computes for it, in non-increasing order of that
\* score, and no candidate left out has a strictly higher score than a
\* returned one.
C2_TopKByFusion ==
    (SearchReturned /\ ~retriever.reranker_fn) =>
        LET all      == last.all_results
            score(d) == RankSum(all, d, last.k_rrf, FALSE, 1)
            res      == last.value
        IN  /\ Len(all) = Len(retriever.indexes)
            /\ \A i \in 1..Len(all) :
                  all[i] = IndexSearch(World(heap, vindex, bm25), retriever.indexes[i],
                                       last.query, 5 * last.k).value
            /\ Len(res) = Min(last.k, Cardinality(Candidates(all)))
            /\ \A p, q \in 1..Len(res) : p # q => res[p].doc # res[q].doc
            /\ \A p \in 1..Len(res) :
                  res[p].doc \in Candidates(all) /\ res[p].score = score(res[p].doc)
            /\ \A p \in 1..(Len(res) - 1) : ~FracLess(res[p].score, res[p + 1].score)
            /\ \A d \in Candidates(all) \ DocsOf(res) :
                  \A p \in 1..Len(res) : ~FracLess(res[p].score, score(d))

\* a search without reranker that left a candidate out and whose best
\* document is not the one the first index ranked first
C2_Witness ==
    /\ SearchReturned /\ ~retriever.reranker_fn
    /\ Len(last.value) = last.k
    /\ Candidates(last.all_results) \ DocsOf(last.value) # {}
    /\ last.all_results[1] # <<>>
    /\ last.value[1].doc # last.all_results[1][1].doc

\* C3: the score attached to a returned document is the sum, over the indexes
\* whose result list contains it, of 1/(k_rrf + r), r its rank (its first
\* position) in that list; an index that did not return it contributes 0.
C3_FusionScore ==
    SearchReturned =>
        \A p \in 1..Len(last.value) :
            last.value[p].score
              = RankSum(last.all_results, last.value[p].doc, last.k_rrf, TRUE, 1)

\* C4: when the reranker returns identifiers of fused candidates, none twice,
\* the result holds exactly the candidates that carry those identifiers, one
\* per identifier returned and in that order, each with its fusion score.
C4_RerankerAuthority ==
    (/\ SearchReturned /\ retriever.reranker_fn
     /\ \A i \in 1..Len(last.reranked_ids) :
           \E d \in DocsOf(last.fused) : heap[d].id = last.reranked_ids[i]
     /\ \A i, j \in 1..Len(last.reranked_ids) :
           i # j => last.reranked_ids[i] # last.reranked_ids[j])
    => /\ Len(last.value) = Len(last.reranked_ids)
       /\ \A p \in 1..Len(last.value) :
             /\ heap[last.value[p].doc].id = last.reranked_ids[p]
             /\ \E q \in 1..Len(last.fused) : last.fused[q] = last.value[p]
       /\ DocsOf(last.value)
            = {d \in DocsOf(last.fused) : heap[d].id \in Range(last.reranked_ids)}

\* C5: every returned document is in a candidate list an index returned for
\* this query; with a reranker it is a fused candidate, and the result has one
\* entry for each returned identifier that a fused candidate carries, none
\* for the others.
C5_FusionExclusion ==
    SearchReturned =>
        /\ DocsOf(last.value) \subseteq Candidates(last.all_results)
        /\ retriever.reranker_fn =>
              /\ DocsOf(last.value) \subseteq DocsOf(last.fused)
              /\ Len(last.value)
                   = Cardinality({i \in 1..Len(last.reranked_ids) :
                                    \E d \in DocsOf(last.fused) :
                                       heap[d].id = last.reranked_ids[i]})

\* a stored document is in no candidate list, and the reranker returned an
\* identifier no fused candidate carries next to one a candidate carries
C5_Witness ==
    /\ SearchReturned /\ retriever.reranker_fn
    /\ Stored \ Candidates(last.all_results) # {}
    /\ last.value # <<>>
    /\ \E i \in 1..Len(last.reranked_ids) :
          \A d \in DocsOf(last.fused) : heap[d].id # last.reranked_ids[i]

\* C6: over N indexes no returned score exceeds N/(k_rrf + 1), and a
\* document every index ranked first has exactly that score.
C6_RrfBound ==
    SearchReturned =>
        LET bound == Frac(Len(retriever.indexes), last.k_rrf + 1)
        IN  \A p \in 1..Len(last.value) :
               /\ ~FracLess(bound, last.value[p].score)
               /\ (\A i \in 1..Len(last.all_results) :
                      /\ last.all_results[i] # <<>>
                      /\ last.all_results[i][1].doc = last.value[p].doc)
                  => last.value[p].score = bound

\* the arguments of a Retriever.search that the method rejects
BadSearchArgs(call) == call.query.kind # "str" \/ call.k <= 0 \/ call.k_rrf < 0

\* C15: constructing a Retriever with zero indexes fails and leaves no
\* retriever; Retriever.search with k <= 0, k_rrf < 0 or a query that is not
\* a string fails without any index having been searched, and leaves every
\* index (the derived statistics of the BM25Index included) and every
\* document as it was.
C15_RejectedEarly ==
    [][/\ (last'.op = "init" /\ last'.indexes = <<>>)
           => (last'.raised # None /\ retriever' = NoIndex)
       /\ (last = Idle /\ last'.op = "search" /\ BadSearchArgs(last'))
           => /\ last'.raised # None
              /\ last'.all_results = <<>>
              /\ UNCHANGED <<heap, vindex, bm25>>]_vars

\* a search with k_rrf < 0 has raised on a BM25Index holding documents whose
\* statistics are still to be computed: an index search would have built them
C15_Witness ==
    /\ last.op = "search" /\ last.raised # None
    /\ last.k > 0 /\ last.k_rrf < 0
    /\ bm25.documents # <<>> /\ ~bm25.index_built

\* the documents of the index of the given kind, in the given state
DocumentsOf(kind, vi, bm) == IF kind = "vector" THEN vi.documents ELSE bm.documents

\* C18: when Retriever.add_document(d) returns without an exception, d has
\* an id: the one it had, or else one newly drawn; and the documents of every
\* index of the retriever are those before the call followed by d, once.
C18_AddDocumentEverywhere ==
    [][(last = Idle /\ last'.op = "add_document" /\ last'.raised = None)
       => LET d == last'.document
              had == d \in 1..Len(heap) /\ heap[d].id # NoId
          IN  /\ heap'[d].id # NoId
              /\ had => heap'[d].id = heap[d].id
              /\ ~had => heap'[d].id \in Ids
              /\ \A i \in 1..Len(retriever.indexes) :
                    DocumentsOf(retriever.indexes[i], vindex', bm25')
                      = Append(DocumentsOf(retriever.indexes[i], vindex, bm25), d)]_vars

\* a document both indexes already held has been added again: it keeps its
\* id and is the last document of both indexes
C18_Witness ==
    /\ last.op = "add_document" /\ last.raised = None
    /\ Len(retriever.indexes) = 2
    /\ ~IsNew(last.arg) /\ last.after.id \in Ids
    /\ \A kind \in {"vector", "bm25"} :
          LET docs == DocumentsOf(kind, vindex, bm25)
          IN  /\ Len(docs) >= 2 /\ docs[Len(docs)] = last.document
              /\ \E p \in 1..(Len(docs) - 1) : docs[p] = last.document

\* C21: distinct document objects are separate fusion candidates, and in the
\* rerank step the id-to-document lookup built from the fused candidates has
\* one entry per candidate: the identifier of each candidate resolves to
\* that candidate and to no other.
C21_OneEntryPerCandidate ==
    (SearchReturned /\ retriever.reranker_fn) =>
        /\ \A p, q \in 1..Len(last.fused) :
              p # q => last.fused[p].doc # last.fused[q].doc
        /\ \A d \in DocsOf(last.fused) :
              /\ heap[d].id # NoId
              /\ DocLookup(heap, DocsOnly(last.fused), heap[d].id) = d

\* the document at d before the call that has just been made: the dict the
\* heap held, or the new dict the caller passed
Before(d) ==
    IF d <= Len(heap) THEN heap[d]
    ELSE IF last'.op = "add_document" THEN last'.arg.new
    ELSE last'.docs[d - Len(heap)]

\* the call that has just been made may give the document at d an id
MayAssignId(d) ==
    \/ last'.op = "add_document" /\ last'.document = d
    \/ last'.op = "search" /\ retriever.reranker_fn /\ d \in DocsOf(last'.fused)

\* C24: no call changes the content or an already present id of a document;
\* a document changes only by getting an id it did not have, and only in
\* Retriever.add_document (the document added) or in a search with a reranker
\* (a fused candidate): add_documents, a search without reranker and the
\* index operations they call change no document.  (The document passed to
\* an add_document that raises is looked at as the caller holds it.)
C24_OnlyIdAdded ==
    [][/\ \A d \in 1..Len(heap') :
             /\ heap'[d].content = Before(d).content
             /\ Before(d).id # NoId => heap'[d].id = Before(d).id
             /\ heap'[d] # Before(d) => (MayAssignId(d) /\ heap'[d].id \in Ids)
       /\ (last = Idle /\ last'.op = "add_document")
          => /\ last'.after.content = Before(last'.document).content
             /\ Before(last'.document).id # NoId
                  => last'.after.id = Before(last'.document).id]_vars

\* a search with a reranker has given an id to its fused candidate and left
\* another stored document without one
C24_Witness ==
    /\ SearchReturned /\ retriever.reranker_fn
    /\ \E d \in DocsOf(last.fused) : heap[d].id \in Ids
    /\ \E d \in Stored \ DocsOf(last.fused) : heap[d].id = NoId

\* C25: whatever add_document and add_documents calls were made on the
\* retriever, those that raised included, all its indexes hold the same
\* documents in the same order.
C25_IndexesInStep ==
    retriever # NoIndex =>
       \A i, j \in 1..Len(retriever.indexes) :
          DocumentsOf(retriever.indexes[i], vindex, bm25)
            = DocumentsOf(retriever.indexes[j], vindex, bm25)

\* C27: a search never returns the same document object twice in one result
\* list, also when the object is stored more than once in an index and when
\* the reranker returns an identifier more than once.
C27_NoDocumentTwice ==
    SearchReturned =>
       \A p, q \in 1..Len(last.value) : p # q => last.value[p].doc # last.value[q].doc

\* the scores a and b an index of that kind returned are equal
ScoresTie(kind, a, b) ==
    IF kind = "vector" THEN ~DistLess(a, b) /\ ~DistLess(b, a) ELSE a.e = b.e

\* the places of the document d in the documents of the index of that kind
StoredAt(kind, d) ==
    {i \in 1..Len(DocumentsOf(kind, vindex, bm25)) : DocumentsOf(kind, vindex, bm25)[i] = d}

\* the places at which d is met when the result lists of the indexes are
\* scanned one after the other, in constructor order
MetAt(all_results, d) ==
    UNION {{SumSeq([j \in 1..(i - 1) |-> Len(all_results[j])]) + p :
               p \in Positions(all_results[i], d)} : i \in 1..Len(all_results)}

\* the least element of a non-empty set of numbers
Least(S) == CHOOSE x \in S : \A y \in S : x <= y

\* the heap with every identifier taken away
WithoutIds(hp) == [d \in 1..Len(hp) |-> [hp[d] EXCEPT !.id = NoId]]

\* C28: without a reranker the result of a search is a function of the
\* documents inserted, the query, k and k_rrf (the identifiers drawn at
\* insertion play no part); of two returned documents with equal fusion
\* scores the one met first in the scan of the index result lists comes
\* first; in the result of each index, of two documents with equal scores one
\* inserted earlier comes first.
C28_DeterministicOrder ==
    (SearchReturned /\ ~retriever.reranker_fn) =>
        /\ last.value
             = SearchAndFuse(retriever, World(WithoutIds(heap), vindex, bm25),
                             last.query, last.k, last.k_rrf).value.result
        /\ \A p, q \in 1..Len(last.value) :
              (/\ p < q
               /\ ~FracLess(last.value[p].score, last.value[q].score)
               /\ ~FracLess(last.value[q].score, last.value[p].score))
              => Least(MetAt(last.all_results, last.value[p].doc))
                   < Least(MetAt(last.all_results, last.value[q].doc))
        /\ \A i \in 1..Len(last.all_results) :
              \A p, q \in 1..Len(last.all_results[i]) :
                 (/\ p < q
                  /\ last.all_results[i][p].doc # last.all_results[i][q].doc
                  /\ ScoresTie(retriever.indexes[i], last.all_results[i][p].score,
                               last.all_results[i][q].score))
                 => \E a \in StoredAt(retriever.indexes[i], last.all_results[i][p].doc),
                       b \in StoredAt(retriever.indexes[i], last.all_results[i][q].doc) :
                       a < b

\* two documents with equal fusion scores are returned, and the first of
\* them is not the one the first index ranked first
C28_Witness ==
    /\ SearchReturned /\ ~retriever.reranker_fn
    /\ Len(last.value) >= 2
    /\ last.value[1].score = last.value[2].score
    /\ Len(last.all_results) = 2
    /\ \E i \in 1..2 : last.all_results[i][1].doc # last.value[1].doc

\* C30: a search that returns on a retriever with a reranker has called the
\* reranker exactly once, with the query text and k of the search; the
\* documents handed over are the fused candidates cut to k: at most k, no
\* document twice, in descending order of fusion score, none left out with a
\* higher score than one handed over, and all of them when there are fewer
\* than k; each carries an id when handed over. A search that raises, or a
\* retriever without reranker, calls no reranker.
C30_RerankerCall ==
    last.op = "search" =>
        IF last.raised = None /\ retriever.reranker_fn
        THEN /\ Len(last.reranker_calls) = 1
             /\ LET call     == last.reranker_calls[1]
                    all      == last.all_results
                    score(d) == RankSum(all, d, last.k_rrf, FALSE, 1)
                IN  /\ call.query_text = last.query
                    /\ call.k = last.k
                    /\ Len(call.docs) = Min(last.k, Cardinality(Candidates(all)))
                    /\ \A p, q \in 1..Len(call.docs) : p # q => call.docs[p] # call.docs[q]
                    /\ \A p \in 1..Len(call.docs) :
                          /\ call.docs[p] \in Candidates(all)
                          /\ call.ids[p] # NoId
                          /\ heap[call.docs[p]].id = call.ids[p]
                    /\ \A p, q \in 1..Len(call.docs) :
                          p < q => ~FracLess(score(call.docs[p]), score(call.docs[q]))
                    /\ \A d \in Candidates(all) \ Range(call.docs) :
                          \A p \in 1..Len(call.docs) :
                             ~FracLess(score(call.docs[p]), score(d))
        ELSE last.reranker_calls = <<>>

\* the reranker was handed two documents with different fusion scores, one of
\* which had no id before the search, and a candidate was left out
C30_Witness ==
    /\ SearchReturned /\ retriever.reranker_fn
    /\ Len(last.reranker_calls) = 1
    /\ Len(last.reranker_calls[1].docs) = 2
    /\ Candidates(last.all_results) \ Range(last.reranker_calls[1].docs) # {}
    /\ FracLess(RankSum(last.all_results, last.reranker_calls[1].docs[2], last.k_rrf, FALSE, 1),
                RankSum(last.all_results, last.reranker_calls[1].docs[1], last.k_rrf, FALSE, 1))

====
